---- MODULE Spec2Model ----
(***************************************************************************)
(* Model of one run of BOMProcessingFlow (flows/bom_flow.py): the stage    *)
(* chain intake -> enrich -> gather_market_intel -> parallel_agent_review  *)
(* -> final_decision -> complete, the working copy self._project, the      *)
(* Project Store record of the run's project, the per-project Offers       *)
(* Store, the three evaluator tasks joined by asyncio.gather, and the      *)
(* trace steps handed to the on_step callback.                             *)
(*                                                                         *)
(* Every action is the code between two consecutive suspension or commit   *)
(* points of a stage: a _log_step call (append + update_project +          *)
(* callback), a project_store write, or an await.  pc is the position of   *)
(* the run in the stage chain.                                             *)
(*                                                                         *)
(* The functions the run calls and whose results the run cannot vary       *)
(* freely (make_final_decisions, _parse_bom, _parse_intake, the            *)
(* evaluators' evaluate_batch) are also modelled on their own, each under  *)
(* a specification of its own that draws the function's inputs from        *)
(* bounded sets, applies it and keeps the run's variables still.           *)
(*                                                                         *)
(* Two further specifications cover what lies around one run: two runs of  *)
(* run_flow_async against the same Project Store, and the ApiKeyStore      *)
(* (stores/api_key_store.py) under create_key, validate_key, revoke_key.   *)
(***************************************************************************)
EXTENDS Integers, Sequences, FiniteSets, TLC

VARIABLES
    bom,            \* parsed rows of the BOM file (the MPN of each row)
    bom_ok,         \* whether the BOM / intake files can be read and parsed
    intel_cfg,      \* whether a MarketIntelAgent was passed to the flow
    pc,             \* position of the run in the stage chain
    error,          \* BOMFlowState.error
    project,        \* self._project, the transient working copy
    store,          \* the Project Store record of this run's project
    offers,         \* self.offers_store: MPN -> list of offers
    tasks,          \* state of the three evaluate_batch coroutines
    results,        \* self._engineering_result / _sourcing_result / _finance_result
    intel_report,   \* self._market_intel_report
    final_report,   \* self._final_report
    batch,          \* items_to_evaluate / items_to_decide (indices into line_items)
    idx,            \* position of final_decision's loop over items_to_decide
    emitted,        \* trace steps handed to on_step, in order
    calls,          \* the evaluate_batch invocations made so far, with their arguments
    returned,       \* what run_flow_async handed back to its caller
    synth_in,       \* arguments of one make_final_decisions call
    synth_out,      \* what that call returned or raised
    enrich_runs,    \* the number of the current invocation of enrich on the project
    offers_once,    \* the Offers Store as the previous invocation of enrich left it
    csv_rows,       \* the rows csv.DictReader hands to one _parse_bom call
    bom_items,      \* what that call returned or raised
    intake_doc,     \* what yaml.safe_load hands to one _parse_intake call
    intake_context, \* what that call returned or raised
    eval_in,        \* the arguments and stores of one round of evaluate_batch calls
    eval_pc,        \* where each evaluator is in its evaluate_batch
    eval_out,       \* the SpecialistAgentResult of each evaluator
    projects_db,    \* the Project Store shared by two runs: project id -> record
    offers_dbs,     \* the Offers Store of each project id
    runs,           \* the two runs: position, state.project_id, self._project, BOM
    key_rows,       \* the rows of the API key table, in the order of their creation
    key_clock,      \* the time _utc_now() returns
    key_call        \* the last call on the ApiKeyStore and what it returned

\* the variables of the run
flow_vars == <<bom, bom_ok, intel_cfg, pc, error, project, store, offers, tasks,
               results, intel_report, final_report, batch, idx, emitted, calls, returned>>

\* the variables of the functions modelled on their own
synth_vars == <<synth_in, synth_out>>
enrich_vars == <<enrich_runs, offers_once>>
parse_vars == <<csv_rows, bom_items, intake_doc, intake_context>>
eval_vars == <<eval_in, eval_pc, eval_out>>
runs_vars == <<projects_db, offers_dbs, runs>>
key_vars == <<key_rows, key_clock, key_call>>
other_vars == <<synth_vars, enrich_vars, parse_vars, eval_vars, runs_vars, key_vars>>

vars == <<flow_vars, other_vars>>

-----------------------------------------------------------------------------
(* Bounds *)

MaxRows == 2
MaxVerdicts == 2
MaxEnrichRuns == 2
MaxKeys == 3
MaxClock == 3

-----------------------------------------------------------------------------
(* Values *)

MPNs == {"P1", "P2"}
\* an MPN the synthesizer may name although no row of the BOM carries it
ForeignMPN == "PX"
Roles == {"engineering", "sourcing", "finance"}

None == "None"

\* LineItemStatus, in the order of the forward path
PENDING == "PENDING"
ENRICHED == "ENRICHED"
PENDING_FINAL_DECISION == "PENDING_FINAL_DECISION"
PENDING_PURCHASE == "PENDING_PURCHASE"
FAILED == "FAILED"
LineItemStatus == {PENDING, ENRICHED, PENDING_FINAL_DECISION, PENDING_PURCHASE, FAILED}

APPROVED == "APPROVED"
REJECTED == "REJECTED"

\* BOMLineItem as created by _parse_bom: status PENDING, nothing selected
BOMLineItem(mpn) ==
    [mpn |-> mpn, status |-> PENDING, final_decision |-> None,
     selected_mpn |-> None, selected_supplier |-> None]

\* the context intake builds: every field absent from the intake document takes
\* its default (budget_total 0, no standards, max_lead_time_days 30)
ProjectContext == [budget_total |-> 0, standards |-> <<>>, max_lead_time_days |-> 30]

\* the absent project (self._project is None / no record in the store)
NoProject ==
    [project_id |-> "", status |-> None, context |-> ProjectContext,
     line_items |-> <<>>, trace |-> <<>>]

\* the caller of run_flow_async has nothing yet
NotReturned == [done |-> FALSE, project |-> NoProject, error |-> None]

\* ProjectStore.create_project(context, line_items)
create_project(rows) ==
    [project_id |-> "PRJ-1", status |-> "intake", context |-> ProjectContext,
     line_items |-> [i \in 1..Len(rows) |-> BOMLineItem(rows[i])],
     trace |-> <<>>]

\* FlowTraceStep(step, agent, message)
FlowTraceStep(step, agent, message) ==
    [step |-> step, agent |-> agent, message |-> message]

\* the absent report (self._final_report is None)
NoReport == [report_id |-> "", verdicts |-> <<>>, total_spend |-> 0]

\* the line costs the language model can put on a verdict
LineCosts == {5}

\* PartVerdict: mpn, verdict, selected_supplier_id, final_line_cost
PartVerdict == [mpn : MPNs \cup {ForeignMPN}, verdict : {APPROVED, REJECTED},
                selected_supplier_id : {"S1"}, final_line_cost : LineCosts]

\* total_spend: the final_line_cost of every APPROVED verdict, summed
RECURSIVE TotalSpend(_, _)
TotalSpend(vs, i) ==
    IF i > Len(vs) THEN 0
    ELSE (IF vs[i].verdict = APPROVED THEN vs[i].final_line_cost ELSE 0)
         + TotalSpend(vs, i + 1)

\* the reports the synthesizer can return for a non-empty batch: any list of
\* verdicts the language model produced
Reports ==
    {[report_id |-> "R1", verdicts |-> vs, total_spend |-> TotalSpend(vs, 1)] :
        vs \in UNION {[1..n -> PartVerdict] : n \in 0..MaxVerdicts}}

\* MarketIntelReport: whether it has items, supply_chain_risks, shortage_alerts
NoIntel == [present |-> FALSE, items |-> FALSE, risks |-> FALSE, alerts |-> FALSE]
\* (a report without items is logged the same way whatever else it holds)
IntelReports ==
    {r \in [present : {TRUE}, items : BOOLEAN, risks : BOOLEAN, alerts : BOOLEAN] :
        (r.risks \/ r.alerts) => r.items}

BOMs == UNION {[1..n -> MPNs] : n \in 0..MaxRows}

-----------------------------------------------------------------------------
(* _log_step *)

\* self._project.trace.append(trace_step), only when a project exists
Logged(p, s) ==
    IF p = NoProject THEN p ELSE [p EXCEPT !.trace = Append(@, s)]

\* self.project_store.update_project(self._project): full-state upsert
update_project(st, p) ==
    IF p = NoProject THEN st ELSE p

\* _log_step that appends to the working copy and notifies the callback but
\* leaves the saving of the project to the next update_project
log_step_deferred(p, s) ==
    /\ project' = Logged(p, s)
    /\ store' = store
    /\ emitted' = Append(emitted, s)

\* _log_step applied to working copy p: append, persist, notify the callback
log_step(p, s) ==
    /\ project' = Logged(p, s)
    /\ store' = update_project(store, Logged(p, s))
    /\ emitted' = Append(emitted, s)

\* project_store.get_project(project_id): a fresh copy of the stored record
get_project == store

-----------------------------------------------------------------------------
\* no function is being exercised on its own
SynthIdle ==
    /\ synth_in = None
    /\ synth_out = None

\* enrich has not been invoked a second time
EnrichOnce ==
    /\ enrich_runs = 1
    /\ offers_once = [m \in MPNs |-> <<>>]

\* no file is being parsed on its own
ParseIdle ==
    /\ csv_rows = None
    /\ bom_items = None
    /\ intake_doc = None
    /\ intake_context = None

\* no evaluator is being exercised on its own
EvalIdle ==
    /\ eval_in = None
    /\ eval_pc = None
    /\ eval_out = None

RunsIdle ==
    /\ projects_db = None
    /\ offers_dbs = None
    /\ runs = None

KeysIdle ==
    /\ key_rows = None
    /\ key_clock = None
    /\ key_call = None

OthersIdle == SynthIdle /\ EnrichOnce /\ ParseIdle /\ EvalIdle /\ RunsIdle /\ KeysIdle

Init ==
    /\ bom \in BOMs
    /\ bom_ok \in BOOLEAN
    /\ intel_cfg \in BOOLEAN
    /\ pc = "intake"
    /\ error = None
    /\ project = NoProject
    /\ store = NoProject
    /\ offers = [m \in MPNs |-> <<>>]
    /\ tasks = [r \in Roles |-> "idle"]
    /\ results = [r \in Roles |-> [agent_name |-> "", parts_evaluated |-> {}]]
    /\ intel_report = NoIntel
    /\ final_report = NoReport
    /\ batch = {}
    /\ idx = 0
    /\ emitted = <<>>
    /\ calls = <<>>
    /\ returned = NotReturned
    /\ OthersIdle

-----------------------------------------------------------------------------
(* intake *)

\* line 105: the first _log_step, before any project exists
intake_start ==
    /\ pc = "intake"
    /\ log_step(project, FlowTraceStep("intake", None, "Starting intake"))
    /\ pc' = "intake_parse"
    /\ UNCHANGED <<other_vars, bom, bom_ok, intel_cfg, calls, returned, error, offers, tasks, results,
                   intel_report, final_report, batch, idx>>

\* line 105 with an on_step callback that raises: _log_step has no handler
\* around self.on_step(trace_step) and line 105 is outside intake's try block,
\* so the exception leaves intake and the run is over
intake_start_callback_raises ==
    /\ pc = "intake"
    /\ log_step(project, FlowTraceStep("intake", None, "Starting intake"))
    /\ pc' = "callback_raised"
    /\ UNCHANGED <<other_vars, bom, bom_ok, intel_cfg, calls, returned, error, offers, tasks, results,
                   intel_report, final_report, batch, idx>>

\* lines 108-114: parse, create the project, open its offers store
intake_create ==
    /\ pc = "intake_parse"
    /\ bom_ok
    /\ project' = create_project(bom)
    /\ store' = create_project(bom)
    /\ offers' = [m \in MPNs |-> <<>>]
    /\ pc' = "intake_created"
    /\ UNCHANGED <<other_vars, bom, bom_ok, intel_cfg, calls, returned, error, tasks, results,
                   intel_report, final_report, batch, idx, emitted>>

\* lines 116-121
intake_log_created ==
    /\ pc = "intake_created"
    /\ log_step(project, FlowTraceStep("intake", None, "Created project"))
    /\ pc' = "enrich"
    /\ UNCHANGED <<other_vars, bom, bom_ok, intel_cfg, calls, returned, error, offers, tasks, results,
                   intel_report, final_report, batch, idx>>

\* lines 123-126: a parse failure is caught, recorded in state.error and logged
intake_error ==
    /\ pc = "intake_parse"
    /\ ~bom_ok
    /\ error' = "parse error"
    /\ log_step(project, FlowTraceStep("intake", None, "ERROR"))
    /\ pc' = "enrich"
    /\ UNCHANGED <<other_vars, bom, bom_ok, intel_cfg, calls, returned, offers, tasks, results,
                   intel_report, final_report, batch, idx>>

-----------------------------------------------------------------------------
(* enrich *)

\* create_mock_offers(item.mpn, ...)
create_mock_offers(mpn) == <<[supplier_id |-> "S1", mpn |-> mpn]>>

\* OffersStore.set_offers(mpn, offers): overwrite the entry of mpn
set_offers(o, mpn, v) == [o EXCEPT ![mpn] = v]

\* EnrichItem that also overwrites the MPN of the item, with P1
EnrichItemRenamed(item) == [item EXCEPT !.status = ENRICHED, !.mpn = "P1"]

\* line 143
EnrichItem(item) == [item EXCEPT !.status = ENRICHED]

RECURSIVE EnrichOffers(_, _, _)
\* lines 140-142 over the items i..Len(items), in order
EnrichOffers(o, items, i) ==
    IF i > Len(items) THEN o
    ELSE EnrichOffers(set_offers(o, items[i].mpn, create_mock_offers(items[i].mpn)),
                      items, i + 1)

\* enrich_skip that still announces the stage although error is set
enrich_skip_logged ==
    /\ pc = "enrich"
    /\ error # None
    /\ log_step(project, FlowTraceStep("enrich", None, "Starting enrichment"))
    /\ pc' = "market_intel"
    /\ UNCHANGED <<other_vars, bom, bom_ok, intel_cfg, calls, returned, error, offers, tasks, results,
                   intel_report, final_report, batch, idx>>

\* lines 131-132, and the same guard of the later stages
enrich_skip ==
    /\ pc = "enrich"
    /\ error # None
    /\ pc' = "market_intel"
    /\ UNCHANGED <<other_vars, bom, bom_ok, intel_cfg, calls, returned, error, project, store, offers, tasks,
                   results, intel_report, final_report, batch, idx, emitted>>

\* line 134
enrich_start ==
    /\ pc = "enrich"
    /\ error = None
    /\ log_step(project, FlowTraceStep("enrich", None, "Starting enrichment"))
    /\ pc' = "enrich_items"
    /\ UNCHANGED <<other_vars, bom, bom_ok, intel_cfg, calls, returned, error, offers, tasks, results,
                   intel_report, final_report, batch, idx>>

\* enrich_items that rebuilds the project from the parsed BOM instead of
\* reloading it, and persists the rebuilt record
enrich_items_rebuilt ==
    /\ pc = "enrich_items"
    /\ LET p == [create_project(bom) EXCEPT
                    !.status = "enriching",
                    !.line_items = [i \in DOMAIN @ |-> EnrichItem(@[i])]]
       IN /\ project' = p
          /\ store' = update_project(store, p)
          /\ offers' = EnrichOffers(offers, get_project.line_items, 1)
    /\ pc' = "enrich_done"
    /\ UNCHANGED <<other_vars, bom, bom_ok, intel_cfg, calls, returned, error, tasks, results,
                   intel_report, final_report, batch, idx, emitted>>

\* enrich_items that adds the new offers of a part to the ones already stored
enrich_items_appending ==
    /\ pc = "enrich_items"
    /\ LET p == [get_project EXCEPT
                    !.status = "enriching",
                    !.line_items = [i \in DOMAIN @ |-> EnrichItem(@[i])]]
       IN /\ project' = p
          /\ store' = update_project(store, p)
          /\ offers' = [m \in MPNs |->
                           IF \E i \in DOMAIN get_project.line_items :
                                  get_project.line_items[i].mpn = m
                           THEN offers[m] \o create_mock_offers(m)
                           ELSE offers[m]]
    /\ pc' = "enrich_done"
    /\ UNCHANGED <<other_vars, bom, bom_ok, intel_cfg, calls, returned, error, tasks, results,
                   intel_report, final_report, batch, idx, emitted>>

\* lines 136-146: reload, set offers and ENRICHED for every item, persist
enrich_items ==
    /\ pc = "enrich_items"
    /\ LET p == [get_project EXCEPT
                    !.status = "enriching",
                    !.line_items = [i \in DOMAIN @ |-> EnrichItem(@[i])]]
       IN /\ project' = p
          /\ store' = update_project(store, p)
          /\ offers' = EnrichOffers(offers, get_project.line_items, 1)
    /\ pc' = "enrich_done"
    /\ UNCHANGED <<other_vars, bom, bom_ok, intel_cfg, calls, returned, error, tasks, results,
                   intel_report, final_report, batch, idx, emitted>>

\* enrich_log_done with parallel_agent_review listening to enrich, so that the
\* market intelligence stage is passed over
enrich_log_done_miswired ==
    /\ pc = "enrich_done"
    /\ log_step(project, FlowTraceStep("enrich", None, "Enriched items"))
    /\ pc' = "parallel_review"
    /\ UNCHANGED <<other_vars, bom, bom_ok, intel_cfg, calls, returned, error, offers, tasks, results,
                   intel_report, final_report, batch, idx>>

\* line 147
enrich_log_done ==
    /\ pc = "enrich_done"
    /\ log_step(project, FlowTraceStep("enrich", None, "Enriched items"))
    /\ pc' = "market_intel"
    /\ UNCHANGED <<other_vars, bom, bom_ok, intel_cfg, calls, returned, error, offers, tasks, results,
                   intel_report, final_report, batch, idx>>

(* gather_market_intel *)

\* lines 154-155
market_intel_skip ==
    /\ pc = "market_intel"
    /\ error # None
    /\ pc' = "parallel_review"
    /\ UNCHANGED <<other_vars, bom, bom_ok, intel_cfg, calls, returned, error, project, store, offers, tasks,
                   results, intel_report, final_report, batch, idx, emitted>>

\* lines 157-159
market_intel_not_configured ==
    /\ pc = "market_intel"
    /\ error = None
    /\ ~intel_cfg
    /\ log_step(project, FlowTraceStep("market_intel", None, "not configured - skipping"))
    /\ pc' = "parallel_review"
    /\ UNCHANGED <<other_vars, bom, bom_ok, intel_cfg, calls, returned, error, offers, tasks, results,
                   intel_report, final_report, batch, idx>>

\* line 161
market_intel_start ==
    /\ pc = "market_intel"
    /\ error = None
    /\ intel_cfg
    /\ log_step(project, FlowTraceStep("market_intel", None, "Starting market intelligence"))
    /\ pc' = "market_intel_gather"
    /\ UNCHANGED <<other_vars, bom, bom_ok, intel_cfg, calls, returned, error, offers, tasks, results,
                   intel_report, final_report, batch, idx>>

\* lines 163-169: reload, and gather_intel returns a report
market_intel_return ==
    /\ pc = "market_intel_gather"
    /\ \E r \in IntelReports : intel_report' = r
    /\ project' = get_project
    /\ pc' = "market_intel_report"
    /\ UNCHANGED <<other_vars, bom, bom_ok, intel_cfg, calls, returned, error, store, offers, tasks, results,
                   final_report, batch, idx, emitted>>

\* error_after_intel_failure with the provider's exception stored in state.error
error_set_by_intel_failure(e) == "market intel failed"

\* the value state.error has after the provider's exception was caught (lines 201-203)
error_after_intel_failure(e) == e

\* lines 163-166, 201-203: gather_intel raises; the exception is logged and dropped
market_intel_raise ==
    /\ pc = "market_intel_gather"
    /\ log_step(get_project, FlowTraceStep("market_intel", "MarketIntelAgent", "gathering failed"))
    /\ error' = error_after_intel_failure(error)
    /\ pc' = "parallel_review"
    /\ UNCHANGED <<other_vars, bom, bom_ok, intel_cfg, calls, returned, offers, tasks, results,
                   intel_report, final_report, batch, idx>>

\* where gather_market_intel goes after the "Gathered" step (lines 179, 187)
AfterGathered(r) ==
    IF r.risks THEN "market_intel_risks"
    ELSE IF r.alerts THEN "market_intel_alerts" ELSE "parallel_review"

\* lines 171-176
market_intel_log_items ==
    /\ pc = "market_intel_report"
    /\ intel_report.items
    /\ log_step(project, FlowTraceStep("market_intel", "MarketIntelAgent", "Gathered intel items"))
    /\ pc' = AfterGathered(intel_report)
    /\ UNCHANGED <<other_vars, bom, bom_ok, intel_cfg, calls, returned, error, offers, tasks, results,
                   intel_report, final_report, batch, idx>>

\* lines 179-185
market_intel_log_risks ==
    /\ pc = "market_intel_risks"
    /\ log_step(project, FlowTraceStep("market_intel", "MarketIntelAgent", "Supply chain risks identified"))
    /\ pc' = IF intel_report.alerts THEN "market_intel_alerts" ELSE "parallel_review"
    /\ UNCHANGED <<other_vars, bom, bom_ok, intel_cfg, calls, returned, error, offers, tasks, results,
                   intel_report, final_report, batch, idx>>

\* lines 187-193
market_intel_log_alerts ==
    /\ pc = "market_intel_alerts"
    /\ log_step(project, FlowTraceStep("market_intel", "MarketIntelAgent", "Shortage alerts"))
    /\ pc' = "parallel_review"
    /\ UNCHANGED <<other_vars, bom, bom_ok, intel_cfg, calls, returned, error, offers, tasks, results,
                   intel_report, final_report, batch, idx>>

\* lines 194-199
market_intel_log_empty ==
    /\ pc = "market_intel_report"
    /\ ~intel_report.items
    /\ log_step(project, FlowTraceStep("market_intel", "MarketIntelAgent", "No market intelligence gathered"))
    /\ pc' = "parallel_review"
    /\ UNCHANGED <<other_vars, bom, bom_ok, intel_cfg, calls, returned, error, offers, tasks, results,
                   intel_report, final_report, batch, idx>>

-----------------------------------------------------------------------------
(* parallel_agent_review *)

\* the absent assessment (self._engineering_result is None, ...)
NoResult == [agent_name |-> "", parts_evaluated |-> {}]

\* SpecialistAgentResult returned by evaluate_batch of role r for the items
SpecialistAgentResult(r, items) ==
    [agent_name |-> r, parts_evaluated |-> {items[i].mpn : i \in DOMAIN items}]

\* lines 221-224 and 305-308: the indices of the items in status s
ItemsWithStatus(p, s) == {i \in DOMAIN p.line_items : p.line_items[i].status = s}

\* GatherDone with a raised coroutine counted as finished (return_exceptions=True)
GatherSettled(t) == \A r \in Roles : t[r] # "running"

\* asyncio.gather returns its results: every awaited coroutine has returned
GatherDone(t) == \A r \in Roles : t[r] = "returned"

\* asyncio.gather propagates the first exception of an awaited coroutine
GatherRaised(t) == \E r \in Roles : t[r] = "raised"

\* line 280
MarkItem(item) == [item EXCEPT !.status = PENDING_FINAL_DECISION]

\* lines 211-212
parallel_review_skip ==
    /\ pc = "parallel_review"
    /\ error # None
    /\ pc' = "final_decision"
    /\ UNCHANGED <<other_vars, bom, bom_ok, intel_cfg, calls, returned, error, project, store, offers, tasks,
                   results, intel_report, final_report, batch, idx, emitted>>

\* line 215
parallel_review_start ==
    /\ pc = "parallel_review"
    /\ error = None
    /\ log_step(project, FlowTraceStep("parallel_review", None, "Starting parallel agent review"))
    /\ pc' = "parallel_review_load"
    /\ UNCHANGED <<other_vars, bom, bom_ok, intel_cfg, calls, returned, error, offers, tasks, results,
                   intel_report, final_report, batch, idx>>

\* parallel_review_no_items that returns without logging the empty review
parallel_review_no_items_silent ==
    /\ pc = "parallel_review_load"
    /\ ItemsWithStatus(get_project, ENRICHED) = {}
    /\ batch' = {}
    /\ project' = [get_project EXCEPT !.status = "agent_review"]
    /\ pc' = "final_decision"
    /\ UNCHANGED <<other_vars, bom, bom_ok, intel_cfg, calls, returned, error, store, offers, tasks,
                   results, intel_report, final_report, idx, emitted>>

\* lines 217-228: reload, nothing is ENRICHED
parallel_review_no_items ==
    /\ pc = "parallel_review_load"
    /\ ItemsWithStatus(get_project, ENRICHED) = {}
    /\ batch' = {}
    /\ log_step([get_project EXCEPT !.status = "agent_review"],
                FlowTraceStep("parallel_review", None, "No items to evaluate"))
    /\ pc' = "final_decision"
    /\ UNCHANGED <<other_vars, bom, bom_ok, intel_cfg, calls, returned, error, offers, tasks, results,
                   intel_report, final_report, idx>>

\* evaluate_batch with the market intel report handed to every role
evaluate_batch_intel_to_all(r, items) ==
    [role |-> r, items |-> items, context |-> get_project.context, offers |-> offers,
     market_intel |-> intel_report]

\* lines 232-253: the arguments of one evaluate_batch call: the batch, the
\* project's context, the offers store, and the market intel report for
\* sourcing only
evaluate_batch(r, items) ==
    [role |-> r, items |-> items, context |-> get_project.context, offers |-> offers,
     market_intel |-> IF r = "sourcing" THEN intel_report ELSE NoIntel]

\* lines 217-253: reload, collect the ENRICHED items, start the three coroutines
parallel_review_fan_out ==
    /\ pc = "parallel_review_load"
    /\ ItemsWithStatus(get_project, ENRICHED) # {}
    /\ project' = [get_project EXCEPT !.status = "agent_review"]
    /\ batch' = ItemsWithStatus(get_project, ENRICHED)
    /\ tasks' = [r \in Roles |-> "running"]
    /\ calls' = calls \o
           <<evaluate_batch("engineering", ItemsWithStatus(get_project, ENRICHED)),
             evaluate_batch("sourcing", ItemsWithStatus(get_project, ENRICHED)),
             evaluate_batch("finance", ItemsWithStatus(get_project, ENRICHED))>>
    /\ pc' = "parallel_review_gather"
    /\ UNCHANGED <<other_vars, bom, bom_ok, intel_cfg, returned, error, store, offers, results,
                   intel_report, final_report, idx, emitted>>

\* evaluate_batch of role r returns its SpecialistAgentResult
evaluator_return(r) ==
    /\ pc = "parallel_review_gather"
    /\ tasks[r] = "running"
    /\ tasks' = [tasks EXCEPT ![r] = "returned"]
    /\ UNCHANGED <<other_vars, bom, bom_ok, intel_cfg, calls, returned, pc, error, project, store, offers,
                   results, intel_report, final_report, batch, idx, emitted>>

\* evaluate_batch of role r raises (crew.kickoff_async fails)
evaluator_raise(r) ==
    /\ pc = "parallel_review_gather"
    /\ tasks[r] = "running"
    /\ tasks' = [tasks EXCEPT ![r] = "raised"]
    /\ UNCHANGED <<other_vars, bom, bom_ok, intel_cfg, calls, returned, pc, error, project, store, offers,
                   results, intel_report, final_report, batch, idx, emitted>>

\* parallel_review_raise with a handler that saves a fresh record marked failed
parallel_review_raise_overwrite ==
    /\ pc = "parallel_review_gather"
    /\ GatherRaised(tasks)
    /\ store' = [store EXCEPT !.status = "failed", !.trace = <<>>]
    /\ pc' = "aborted"
    /\ UNCHANGED <<other_vars, bom, bom_ok, intel_cfg, calls, returned, error, project, offers, tasks,
                   results, intel_report, final_report, batch, idx, emitted>>

\* lines 232-253: the await raises; the exception leaves parallel_agent_review,
\* no later statement of the stage and no later stage runs
parallel_review_raise ==
    /\ pc = "parallel_review_gather"
    /\ GatherRaised(tasks)
    /\ pc' = "aborted"
    /\ UNCHANGED <<other_vars, bom, bom_ok, intel_cfg, calls, returned, error, project, store, offers, tasks,
                   results, intel_report, final_report, batch, idx, emitted>>

\* lines 232-256: the await returns the three results
parallel_review_join ==
    /\ pc = "parallel_review_gather"
    /\ GatherDone(tasks)
    /\ results' = [r \in Roles |->
                     SpecialistAgentResult(r, [i \in batch |-> project.line_items[i]])]
    /\ log_step(project, FlowTraceStep("parallel_review", None, "Parallel LLM calls completed"))
    /\ pc' = "parallel_review_engineering"
    /\ UNCHANGED <<other_vars, bom, bom_ok, intel_cfg, calls, returned, error, offers, tasks,
                   intel_report, final_report, batch, idx>>

\* lines 259-264
parallel_review_log_engineering ==
    /\ pc = "parallel_review_engineering"
    /\ log_step(project, FlowTraceStep("engineering", "EngineeringAgent", "Engineering analysis complete"))
    /\ pc' = "parallel_review_sourcing"
    /\ UNCHANGED <<other_vars, bom, bom_ok, intel_cfg, calls, returned, error, offers, tasks, results,
                   intel_report, final_report, batch, idx>>

\* lines 265-270
parallel_review_log_sourcing ==
    /\ pc = "parallel_review_sourcing"
    /\ log_step(project, FlowTraceStep("sourcing", "SourcingAgent", "Sourcing analysis complete"))
    /\ pc' = "parallel_review_finance"
    /\ UNCHANGED <<other_vars, bom, bom_ok, intel_cfg, calls, returned, error, offers, tasks, results,
                   intel_report, final_report, batch, idx>>

\* parallel_review_log_finance that files the finance entry under the name of
\* the stage
parallel_review_log_finance_unnamed ==
    /\ pc = "parallel_review_finance"
    /\ log_step(project, FlowTraceStep("parallel_review", "FinanceAgent", "Finance analysis complete"))
    /\ pc' = "parallel_review_mark"
    /\ UNCHANGED <<other_vars, bom, bom_ok, intel_cfg, calls, returned, error, offers, tasks, results,
                   intel_report, final_report, batch, idx>>

\* lines 271-276
parallel_review_log_finance ==
    /\ pc = "parallel_review_finance"
    /\ log_step(project, FlowTraceStep("finance", "FinanceAgent", "Finance analysis complete"))
    /\ pc' = "parallel_review_mark"
    /\ UNCHANGED <<other_vars, bom, bom_ok, intel_cfg, calls, returned, error, offers, tasks, results,
                   intel_report, final_report, batch, idx>>

\* lines 278-282
parallel_review_mark ==
    /\ pc = "parallel_review_mark"
    /\ LET p == [project EXCEPT !.line_items =
                    [i \in DOMAIN @ |-> IF i \in batch THEN MarkItem(@[i]) ELSE @[i]]]
       IN /\ project' = p
          /\ store' = update_project(store, p)
    /\ pc' = "parallel_review_done"
    /\ UNCHANGED <<other_vars, bom, bom_ok, intel_cfg, calls, returned, error, offers, tasks, results,
                   intel_report, final_report, batch, idx, emitted>>

\* lines 284-289
parallel_review_log_done ==
    /\ pc = "parallel_review_done"
    /\ log_step(project, FlowTraceStep("parallel_review", None, "Parallel review complete"))
    /\ pc' = "final_decision"
    /\ UNCHANGED <<other_vars, bom, bom_ok, intel_cfg, calls, returned, error, offers, tasks, results,
                   intel_report, final_report, batch, idx>>

-----------------------------------------------------------------------------
(* final_decision *)

\* line 328-331: verdict_map.get(mpn) finds a verdict
HasVerdict(vs, mpn) == \E i \in DOMAIN vs : vs[i].mpn = mpn

\* line 328: the dict comprehension keeps the last verdict of each MPN
VerdictFor(vs, mpn) ==
    vs[CHOOSE i \in DOMAIN vs :
          /\ vs[i].mpn = mpn
          /\ \A j \in DOMAIN vs : vs[j].mpn = mpn => j <= i]

\* ApplyVerdict with a rejected item sent back to the start of the path
ApplyVerdictRequeue(item, v) ==
    IF v.verdict = APPROVED
    THEN [item EXCEPT !.final_decision = APPROVED,
                      !.selected_mpn = item.mpn,
                      !.selected_supplier = v.selected_supplier_id,
                      !.status = PENDING_PURCHASE]
    ELSE [item EXCEPT !.final_decision = REJECTED,
                      !.status = PENDING]

\* ApplyVerdict that records the supplier of the verdict for a rejected item too
ApplyVerdictSelecting(item, v) ==
    IF v.verdict = APPROVED
    THEN [item EXCEPT !.final_decision = APPROVED,
                      !.selected_mpn = item.mpn,
                      !.selected_supplier = v.selected_supplier_id,
                      !.status = PENDING_PURCHASE]
    ELSE [item EXCEPT !.final_decision = REJECTED,
                      !.selected_supplier = v.selected_supplier_id,
                      !.status = FAILED]

\* lines 334-365: the decision record and the status a verdict gives an item
ApplyVerdict(item, v) ==
    IF v.verdict = APPROVED
    THEN [item EXCEPT !.final_decision = APPROVED,
                      !.selected_mpn = item.mpn,
                      !.selected_supplier = v.selected_supplier_id,
                      !.status = PENDING_PURCHASE]
    ELSE [item EXCEPT !.final_decision = REJECTED,
                      !.status = FAILED]

\* the item of items_to_decide the loop of line 330 is at
Current == CHOOSE i \in batch : i >= idx /\ \A j \in batch : j >= idx => i <= j

LoopDone == \A i \in batch : i < idx

\* lines 295-296
final_decision_skip ==
    /\ pc = "final_decision"
    /\ error # None
    /\ pc' = "complete"
    /\ UNCHANGED <<other_vars, bom, bom_ok, intel_cfg, calls, returned, error, project, store, offers, tasks,
                   results, intel_report, final_report, batch, idx, emitted>>

\* line 299
final_decision_start ==
    /\ pc = "final_decision"
    /\ error = None
    /\ log_step(project, FlowTraceStep("final_decision", None, "Starting final decision synthesis"))
    /\ pc' = "final_decision_load"
    /\ UNCHANGED <<other_vars, bom, bom_ok, intel_cfg, calls, returned, error, offers, tasks, results,
                   intel_report, final_report, batch, idx>>

\* lines 301-312: reload, nothing is PENDING_FINAL_DECISION
final_decision_no_items ==
    /\ pc = "final_decision_load"
    /\ ItemsWithStatus(get_project, PENDING_FINAL_DECISION) = {}
    /\ batch' = {}
    /\ log_step([get_project EXCEPT !.status = "final_decision"],
                FlowTraceStep("final_decision", None, "No items pending final decision"))
    /\ pc' = "complete"
    /\ UNCHANGED <<other_vars, bom, bom_ok, intel_cfg, calls, returned, error, offers, tasks, results,
                   intel_report, final_report, idx>>

\* lines 301-321: reload, collect the pending items, call the synthesizer
final_decision_invoke ==
    /\ pc = "final_decision_load"
    /\ ItemsWithStatus(get_project, PENDING_FINAL_DECISION) # {}
    /\ project' = [get_project EXCEPT !.status = "final_decision"]
    /\ batch' = ItemsWithStatus(get_project, PENDING_FINAL_DECISION)
    /\ pc' = "final_decision_await"
    /\ UNCHANGED <<other_vars, bom, bom_ok, intel_cfg, calls, returned, error, store, offers, tasks, results,
                   intel_report, final_report, idx, emitted>>

\* lines 315-324: make_final_decisions returns a report
synthesizer_return ==
    /\ pc = "final_decision_await"
    /\ \E rep \in Reports : final_report' = rep
    /\ log_step(project, FlowTraceStep("final_decision", None, "Final decision LLM call completed"))
    /\ idx' = 1
    /\ pc' = "final_decision_loop"
    /\ UNCHANGED <<other_vars, bom, bom_ok, intel_cfg, calls, returned, error, offers, tasks, results,
                   intel_report, batch>>

\* lines 315-321: make_final_decisions raises; the exception leaves final_decision
synthesizer_raise ==
    /\ pc = "final_decision_await"
    /\ pc' = "aborted"
    /\ UNCHANGED <<other_vars, bom, bom_ok, intel_cfg, calls, returned, error, project, store, offers, tasks,
                   results, intel_report, final_report, batch, idx, emitted>>

\* lines 330-376: one iteration of the loop, the item has a verdict
final_decision_apply ==
    /\ pc = "final_decision_loop"
    /\ ~LoopDone
    /\ HasVerdict(final_report.verdicts, project.line_items[Current].mpn)
    /\ LET i == Current
           v == VerdictFor(final_report.verdicts, project.line_items[i].mpn)
       IN /\ log_step([project EXCEPT !.line_items[i] = ApplyVerdict(@, v)],
                      FlowTraceStep("final_decision", "FinalDecisionAgent", v.verdict))
          /\ idx' = i + 1
    /\ UNCHANGED <<other_vars, bom, bom_ok, intel_cfg, calls, returned, pc, error, offers, tasks, results,
                   intel_report, final_report, batch>>

\* lines 330-332: one iteration of the loop, verdict_map.get returns None
final_decision_no_verdict ==
    /\ pc = "final_decision_loop"
    /\ ~LoopDone
    /\ ~HasVerdict(final_report.verdicts, project.line_items[Current].mpn)
    /\ idx' = Current + 1
    /\ UNCHANGED <<other_vars, bom, bom_ok, intel_cfg, calls, returned, pc, error, project, store, offers, tasks,
                   results, intel_report, final_report, batch, emitted>>

\* final_decision_update that takes the spend of the report off the budget of
\* the context before it saves the project
final_decision_update_spends_budget ==
    /\ pc = "final_decision_loop"
    /\ LoopDone
    /\ store' = update_project(store, [project EXCEPT !.context.budget_total =
                                                         @ - final_report.total_spend])
    /\ pc' = "final_decision_done"
    /\ UNCHANGED <<other_vars, bom, bom_ok, intel_cfg, calls, returned, error, project, offers, tasks, results,
                   intel_report, final_report, batch, idx, emitted>>

\* line 378
final_decision_update ==
    /\ pc = "final_decision_loop"
    /\ LoopDone
    /\ store' = update_project(store, project)
    /\ pc' = "final_decision_done"
    /\ UNCHANGED <<other_vars, bom, bom_ok, intel_cfg, calls, returned, error, project, offers, tasks, results,
                   intel_report, final_report, batch, idx, emitted>>

\* lines 380-387
final_decision_log_done ==
    /\ pc = "final_decision_done"
    /\ log_step(project, FlowTraceStep("final_decision", None, "Final decisions complete"))
    /\ pc' = "complete"
    /\ UNCHANGED <<other_vars, bom, bom_ok, intel_cfg, calls, returned, error, offers, tasks, results,
                   intel_report, final_report, batch, idx>>

-----------------------------------------------------------------------------
(* complete *)

\* lines 392-393
complete_skip ==
    /\ pc = "complete"
    /\ error # None
    /\ pc' = "done"
    /\ UNCHANGED <<other_vars, bom, bom_ok, intel_cfg, calls, returned, error, project, store, offers, tasks,
                   results, intel_report, final_report, batch, idx, emitted>>

\* lines 395-397
complete_mark ==
    /\ pc = "complete"
    /\ error = None
    /\ project' = [get_project EXCEPT !.status = "complete"]
    /\ store' = update_project(store, [get_project EXCEPT !.status = "complete"])
    /\ pc' = "complete_log"
    /\ UNCHANGED <<other_vars, bom, bom_ok, intel_cfg, calls, returned, error, offers, tasks, results,
                   intel_report, final_report, batch, idx, emitted>>

\* complete_log that appends its step to the copy loaded before the project
\* was marked complete, and persists that copy
complete_log_stale ==
    /\ pc = "complete_log"
    /\ log_step([project EXCEPT !.status = "final_decision"],
                FlowTraceStep("complete", None, "processing complete"))
    /\ pc' = "done"
    /\ UNCHANGED <<other_vars, bom, bom_ok, intel_cfg, calls, returned, error, offers, tasks, results,
                   intel_report, final_report, batch, idx>>

\* lines 399-410
complete_log ==
    /\ pc = "complete_log"
    /\ log_step(project, FlowTraceStep("complete", None, "processing complete"))
    /\ pc' = "done"
    /\ UNCHANGED <<other_vars, bom, bom_ok, intel_cfg, calls, returned, error, offers, tasks, results,
                   intel_report, final_report, batch, idx>>

-----------------------------------------------------------------------------
(* run_flow_async *)

\* line 559: after kickoff_async returned, the caller gets
\* project_store.get_project(flow.state.project_id) and nothing else;
\* flow.state.error is not part of what is handed back
run_flow_return ==
    /\ pc = "done"
    /\ returned' = [done |-> TRUE,
                    project |-> IF project.project_id = "" THEN NoProject ELSE get_project,
                    error |-> None]
    /\ pc' = "returned"
    /\ UNCHANGED <<other_vars, bom, bom_ok, intel_cfg, calls, error, project, store, offers, tasks,
                   results, intel_report, final_report, batch, idx, emitted>>

-----------------------------------------------------------------------------
Next ==
    \/ intake_start
    \/ intake_start_callback_raises
    \/ intake_create
    \/ intake_log_created
    \/ intake_error
    \/ enrich_skip
    \/ enrich_start
    \/ enrich_items
    \/ enrich_log_done
    \/ market_intel_skip
    \/ market_intel_not_configured
    \/ market_intel_start
    \/ market_intel_return
    \/ market_intel_raise
    \/ market_intel_log_items
    \/ market_intel_log_risks
    \/ market_intel_log_alerts
    \/ market_intel_log_empty
    \/ parallel_review_skip
    \/ parallel_review_start
    \/ parallel_review_no_items
    \/ parallel_review_fan_out
    \/ \E r \in Roles : evaluator_return(r)
    \/ \E r \in Roles : evaluator_raise(r)
    \/ parallel_review_raise
    \/ parallel_review_join
    \/ parallel_review_log_engineering
    \/ parallel_review_log_sourcing
    \/ parallel_review_log_finance
    \/ parallel_review_mark
    \/ parallel_review_log_done
    \/ final_decision_skip
    \/ final_decision_start
    \/ final_decision_no_items
    \/ final_decision_invoke
    \/ synthesizer_return
    \/ synthesizer_raise
    \/ final_decision_apply
    \/ final_decision_no_verdict
    \/ final_decision_update
    \/ final_decision_log_done
    \/ complete_skip
    \/ complete_mark
    \/ complete_log
    \/ run_flow_return

Spec == Init /\ [][Next]_vars

-----------------------------------------------------------------------------
(* FinalDecisionAgent.make_final_decisions on its own *)

\* the run's variables, kept still while a function is exercised on its own
FlowIdle ==
    /\ bom = <<>>
    /\ bom_ok = TRUE
    /\ intel_cfg = FALSE
    /\ pc = "idle"
    /\ error = None
    /\ project = NoProject
    /\ store = NoProject
    /\ offers = [m \in MPNs |-> <<>>]
    /\ tasks = [r \in Roles |-> "idle"]
    /\ results = [r \in Roles |-> [agent_name |-> "", parts_evaluated |-> {}]]
    /\ intel_report = NoIntel
    /\ final_report = NoReport
    /\ batch = {}
    /\ idx = 0
    /\ emitted = <<>>
    /\ calls = <<>>
    /\ returned = NotReturned

\* project_context.budget_total: a positive budget, none, and a negative one
Budgets == {-10, 0, 10}

\* LLMPartVerdict.final_line_cost
FinalLineCosts == {0, 1, 2}

\* LLMPartVerdict: what the language model puts in one verdict
LLMPartVerdict ==
    [mpn : MPNs \cup {ForeignMPN}, verdict : {APPROVED, REJECTED},
     selected_supplier_id : {"S1"}, final_line_cost : FinalLineCosts]

\* result.pydantic: absent, or an LLMFinalDecisionOutput with any list of verdicts
LLMOutputs ==
    {[structured |-> FALSE, verdicts |-> <<>>]} \cup
    {[structured |-> TRUE, verdicts |-> vs] :
        vs \in UNION {[1..n -> LLMPartVerdict] : n \in 0..MaxVerdicts}}

\* a float quotient, kept exact as numerator and denominator; dividing by
\* zero raises ZeroDivisionError
Quotient(a, b) ==
    IF b = 0 THEN [fault |-> TRUE, num |-> 0, den |-> 1]
    ELSE [fault |-> FALSE, num |-> a, den |-> b]

Times(q, k) == [q EXCEPT !.num = @ * k]

\* sum(1 for v in verdicts if v.verdict == "APPROVED")
total_approved(verdicts) ==
    Cardinality({i \in 1..Len(verdicts) : verdicts[i].verdict = APPROVED})

\* total_rejected that counts the rejected part numbers instead of the
\* rejected verdicts
total_rejected_mpns(verdicts) ==
    Cardinality({verdicts[i].mpn : i \in {j \in 1..Len(verdicts) : verdicts[j].verdict = REJECTED}})

\* sum(1 for v in verdicts if v.verdict == "REJECTED")
total_rejected(verdicts) ==
    Cardinality({i \in 1..Len(verdicts) : verdicts[i].verdict = REJECTED})

\* total_spend that adds the line cost of every verdict, rejected ones too
total_spend_all(verdicts) ==
    TotalSpend([i \in 1..Len(verdicts) |-> [verdicts[i] EXCEPT !.verdict = APPROVED]], 1)

\* the loop of lines 250-273
total_spend(verdicts) == TotalSpend(verdicts, 1)

\* budget_utilization without the guard on the budget
budget_utilization_unguarded(spend, budget_total) ==
    Times(Quotient(spend, budget_total), 100)

\* line 299
budget_utilization(spend, budget_total) ==
    IF budget_total > 0 THEN Times(Quotient(spend, budget_total), 100)
    ELSE Quotient(0, 1)

\* the synthesizer has not been called
NotCalled ==
    [state |-> "not called", verdicts |-> <<>>, total_parts |-> 0,
     total_approved |-> 0, total_rejected |-> 0, total_spend |-> 0,
     budget_remaining |-> 0, budget_utilization_pct |-> Quotient(0, 1)]

\* lines 113-134: no line items, the zero-valued report
EmptyInputReport(budget_total) ==
    [state |-> "returned", verdicts |-> <<>>, total_parts |-> 0,
     total_approved |-> 0, total_rejected |-> 0, total_spend |-> 0,
     budget_remaining |-> budget_total, budget_utilization_pct |-> Quotient(0, 1)]

\* line 244: ValueError, or a ZeroDivisionError of line 299
SynthRaised == [NotCalled EXCEPT !.state = "raised"]

\* lines 249-312: the report built from the language model's output
BuiltReport(line_items, budget_total, verdicts) ==
    IF budget_utilization(total_spend(verdicts), budget_total).fault
    THEN SynthRaised
    ELSE [state |-> "returned", verdicts |-> verdicts,
          total_parts |-> Len(line_items),
          total_approved |-> total_approved(verdicts),
          total_rejected |-> total_rejected(verdicts),
          total_spend |-> total_spend(verdicts),
          budget_remaining |-> budget_total - total_spend(verdicts),
          budget_utilization_pct |->
              budget_utilization(total_spend(verdicts), budget_total)]

make_final_decisions(line_items, budget_total, llm) ==
    IF line_items = <<>> THEN EmptyInputReport(budget_total)
    ELSE IF ~llm.structured THEN SynthRaised
    ELSE BuiltReport(line_items, budget_total, llm.verdicts)

InitReport ==
    /\ FlowIdle
    /\ EnrichOnce
    /\ RunsIdle
    /\ KeysIdle
    /\ ParseIdle
    /\ EvalIdle
    /\ synth_in \in [line_items : BOMs, budget_total : Budgets, llm : LLMOutputs]
    /\ synth_out = NotCalled

\* one call of make_final_decisions
make_final_decisions_call ==
    /\ synth_out = NotCalled
    /\ synth_out' = make_final_decisions(synth_in.line_items, synth_in.budget_total,
                                         synth_in.llm)
    /\ UNCHANGED <<flow_vars, synth_in, enrich_vars, runs_vars, key_vars, parse_vars, eval_vars>>

NextReport == make_final_decisions_call

SpecReport == InitReport /\ [][NextReport]_vars

-----------------------------------------------------------------------------
(* enrich invoked again on the same project *)

\* enrich (lines 128-149) is called once more on the project it has just
\* enriched
enrich_again ==
    /\ pc = "market_intel"
    /\ enrich_runs < MaxEnrichRuns
    /\ enrich_runs' = enrich_runs + 1
    /\ offers_once' = offers
    /\ pc' = "enrich"
    /\ UNCHANGED <<synth_vars, parse_vars, eval_vars, runs_vars, key_vars, bom, bom_ok, intel_cfg, calls,
                   returned, error, project, store, offers, tasks, results, intel_report,
                   final_report, batch, idx, emitted>>

NextEnrich ==
    \/ intake_start
    \/ intake_create
    \/ intake_log_created
    \/ intake_error
    \/ enrich_skip
    \/ enrich_start
    \/ enrich_items
    \/ enrich_log_done
    \/ enrich_again

SpecEnrich == Init /\ [][NextEnrich]_vars

-----------------------------------------------------------------------------
(* _parse_bom on its own *)

\* the row dictionary has no such key (the file has no such column)
NoColumn == "<no column>"

\* what the cells of a row can hold
QuantityCells == {NoColumn, "", "abc", "0", "3"}
QtyCells == {NoColumn, "2"}
MPNCells == {NoColumn, "", "P1"}
PartNumberCells == {NoColumn, "P2"}

CsvRow == [Quantity : QuantityCells, Qty : QtyCells, MPN : MPNCells,
           PartNumber : PartNumberCells]

\* int(text) for the texts that are integers; every other text raises ValueError
IntValue == ("0" :> 0) @@ ("1" :> 1) @@ ("2" :> 2) @@ ("3" :> 3)

\* row.get("Quantity", row.get("Qty", 1)), the default 1 written as text
QuantityText(row) ==
    IF row.Quantity # NoColumn THEN row.Quantity
    ELSE IF row.Qty # NoColumn THEN row.Qty
    ELSE "1"

\* row.get("MPN", row.get("Part Number", ""))
MPNText(row) ==
    IF row.MPN # NoColumn THEN row.MPN
    ELSE IF row.PartNumber # NoColumn THEN row.PartNumber
    ELSE ""

\* lines 419-427: the BOMLineItem of one row
ParsedItem(row) == [mpn |-> MPNText(row), quantity |-> IntValue[QuantityText(row)]]

\* _parse_bom has not been called
NotParsed == [state |-> "not called", items |-> <<>>]

\* lines 414-428: the first row whose quantity is not an integer raises out of
\* the loop; otherwise every row yields one item
parse_bom(rows) ==
    IF \E i \in 1..Len(rows) : QuantityText(rows[i]) \notin DOMAIN IntValue
    THEN [state |-> "raised", items |-> <<>>]
    ELSE [state |-> "returned", items |-> [i \in 1..Len(rows) |-> ParsedItem(rows[i])]]

InitParseBom ==
    /\ FlowIdle
    /\ SynthIdle
    /\ EnrichOnce
    /\ RunsIdle
    /\ KeysIdle
    /\ EvalIdle
    /\ intake_doc = None
    /\ intake_context = None
    /\ csv_rows \in UNION {[1..n -> CsvRow] : n \in 0..MaxRows}
    /\ bom_items = NotParsed

\* line 109: intake calls _parse_bom
parse_bom_call ==
    /\ bom_items = NotParsed
    /\ bom_items' = parse_bom(csv_rows)
    /\ UNCHANGED <<flow_vars, synth_vars, enrich_vars, runs_vars, key_vars, eval_vars, csv_rows, intake_doc,
                   intake_context>>

NextParseBom == parse_bom_call

SpecParseBom == InitParseBom /\ [][NextParseBom]_vars

-----------------------------------------------------------------------------
(* _parse_intake on its own *)

\* the fields of each section that the defaults of the context depend on
RequirementsFields == {"budget_total"}
ComplianceFields == {"standards"}
SourcingFields == {"max_lead_time_days"}
EngineeringFields == {"preferred_manufacturers"}

\* the values the document gives to the fields it holds
BudgetInDoc == 100
StandardsInDoc == <<"RoHS">>
MaxLeadTimeInDoc == 14

\* a section of the document as yaml.safe_load returns it: the key is absent,
\* the key is there with nothing under it (None), or it is a mapping that
\* holds some of the fields
Section(fields) ==
    {[kind |-> "absent", present |-> {}], [kind |-> "null", present |-> {}]}
        \cup {[kind |-> "mapping", present |-> p] : p \in SUBSET fields}

AbsentSection == [kind |-> "absent", present |-> {}]

\* the intake of a run: no intake path, an empty file (yaml.safe_load returns
\* None), or a mapping of sections
IntakeDocs ==
    {[kind |-> k, project |-> AbsentSection, requirements |-> AbsentSection,
      compliance |-> AbsentSection, sourcing_constraints |-> AbsentSection,
      engineering_context |-> AbsentSection] : k \in {"no path", "empty"}}
        \cup [kind : {"mapping"}, project : Section({}),
              requirements : Section(RequirementsFields),
              compliance : Section(ComplianceFields),
              sourcing_constraints : Section(SourcingFields),
              engineering_context : Section(EngineeringFields)]

SectionNames ==
    {"project", "requirements", "compliance", "sourcing_constraints", "engineering_context"}

\* _parse_intake has not been called
IntakeNotParsed == [state |-> "not called", context |-> ProjectContext]

\* lines 435-439: data.get(name, {}) gives {} for an absent key and the value,
\* None included, for a key that is there; every section is then read with
\* .get, which None does not have
parse_intake(doc) ==
    IF doc.kind = "empty" \/ \E s \in SectionNames : doc[s].kind = "null"
    THEN [state |-> "raised", context |-> ProjectContext]
    ELSE [state |-> "returned",
          context |->
              [budget_total |->
                   IF "budget_total" \in doc.requirements.present
                   THEN BudgetInDoc ELSE 0,
               standards |->
                   IF "standards" \in doc.compliance.present
                   THEN StandardsInDoc ELSE <<>>,
               max_lead_time_days |->
                   IF "max_lead_time_days" \in doc.sourcing_constraints.present
                   THEN MaxLeadTimeInDoc ELSE 30]]

\* line 108: the context of a run without an intake path is ProjectContext()
intake_context_of(doc) ==
    IF doc.kind = "no path"
    THEN [state |-> "returned", context |-> ProjectContext]
    ELSE parse_intake(doc)

InitParseIntake ==
    /\ FlowIdle
    /\ SynthIdle
    /\ EnrichOnce
    /\ RunsIdle
    /\ KeysIdle
    /\ EvalIdle
    /\ csv_rows = None
    /\ bom_items = None
    /\ intake_doc \in IntakeDocs
    /\ intake_context = IntakeNotParsed

\* line 108: intake builds the context
parse_intake_call ==
    /\ intake_context = IntakeNotParsed
    /\ intake_context' = intake_context_of(intake_doc)
    /\ UNCHANGED <<flow_vars, synth_vars, enrich_vars, runs_vars, key_vars, eval_vars, csv_rows, bom_items,
                   intake_doc>>

NextParseIntake == parse_intake_call

SpecParseIntake == InitParseIntake /\ [][NextParseIntake]_vars

-----------------------------------------------------------------------------
(* The three evaluate_batch coroutines on their own *)

\* the quantities of the line items handed to the evaluators
Quantities == {1, 2}

\* a line item as the evaluators read it
EvalItem == [mpn : MPNs, quantity : Quantities]

\* the one offer a part can have: its unit price and its minimum order quantity
TheOffer == [price |-> 3, moq |-> 1]

\* what offers_store.get_offers(mpn) returns: None, a PartOffers without
\* offers, or a PartOffers with one offer
PartOffersValues ==
    {[found |-> FALSE, offers |-> <<>>], [found |-> TRUE, offers |-> <<>>],
     [found |-> TRUE, offers |-> <<TheOffer>>]}

\* ban reasons of the org knowledge store; "" is a part that is not banned
BanReasons == {"", "EOL"}

\* the budget of the project context
EvalBudgets == {0, 6}

\* result.raw of the language model: an answer that cites nothing, and one
\* that repeats the ban of P1
Raws == {"", "P1: BANNED - EOL"}

\* everything the three coroutines share: the line items, the offers store, the
\* org knowledge store (the ban of P1), the project context, and what the
\* language model answers to each of them
EvalInputs ==
    [line_items : UNION {[1..n -> EvalItem] : n \in 0..MaxRows},
     offers : [MPNs -> PartOffersValues],
     banned : [{"P1"} -> BanReasons],
     budget_total : EvalBudgets,
     raw : [Roles -> Raws]]

\* agent_name of each role
AgentName ==
    [r \in Roles |->
        CASE r = "engineering" -> "EngineeringAgent"
          [] r = "sourcing" -> "SourcingAgent"
          [] r = "finance" -> "FinanceAgent"]

\* one entry of key_concerns: the MPN the text starts with ("" for a concern
\* about the whole batch), the wording, and the ban reason if it carries one
Concern(mpn, text, detail) == [mpn |-> mpn, text |-> text, detail |-> detail]

\* org_store.is_part_banned(mpn)
is_part_banned(in, mpn) == mpn \in DOMAIN in.banned /\ in.banned[mpn] # ""

\* `not part_offers or not part_offers.offers`
NoOffers(in, mpn) == ~in.offers[mpn].found \/ in.offers[mpn].offers = <<>>

\* a banned part is reported without the reason of its ban
RECURSIVE engineering_concerns_unreasoned(_, _)
engineering_concerns_unreasoned(in, i) ==
    IF i > Len(in.line_items) THEN <<>>
    ELSE LET mpn == in.line_items[i].mpn
         IN (IF is_part_banned(in, mpn)
             THEN <<Concern(mpn, "BANNED", "")>> ELSE <<>>)
                \o engineering_concerns_unreasoned(in, i + 1)

\* engineering.py lines 61-81: a concern for every banned part, nothing for a
\* part without offers
RECURSIVE engineering_concerns(_, _)
engineering_concerns(in, i) ==
    IF i > Len(in.line_items) THEN <<>>
    ELSE LET mpn == in.line_items[i].mpn
         IN (IF is_part_banned(in, mpn)
             THEN <<Concern(mpn, "BANNED", in.banned[mpn])>> ELSE <<>>)
                \o engineering_concerns(in, i + 1)

\* sourcing.py lines 86-93
RECURSIVE sourcing_concerns(_, _)
sourcing_concerns(in, i) ==
    IF i > Len(in.line_items) THEN <<>>
    ELSE LET mpn == in.line_items[i].mpn
         IN (IF NoOffers(in, mpn)
             THEN <<Concern(mpn, "No offers available", "")>> ELSE <<>>)
                \o sourcing_concerns(in, i + 1)

\* finance.py lines 173-187: the best price and its moq over the offers of a part
RECURSIVE BestOffer(_, _, _)
BestOffer(part_offers, j, best) ==
    IF ~part_offers.found \/ j > Len(part_offers.offers) THEN best
    ELSE LET offer == part_offers.offers[j]
         IN BestOffer(part_offers, j + 1,
                      IF best.price = 0 \/ offer.price < best.price THEN offer ELSE best)

\* finance.py lines 189-190: estimated_cost of one line item
estimated_cost(in, item) ==
    LET best == BestOffer(in.offers[item.mpn], 1, [price |-> 0, moq |-> 1])
        order_qty == IF item.quantity > best.moq THEN item.quantity ELSE best.moq
    IN best.price * order_qty

\* finance.py lines 62-72: running_total after the first i line items
RECURSIVE running_total(_, _)
running_total(in, i) ==
    IF i = 0 THEN 0
    ELSE running_total(in, i - 1) + estimated_cost(in, in.line_items[i])

\* finance.py lines 62-70: a concern for every part without pricing data
RECURSIVE finance_pricing_concerns(_, _)
finance_pricing_concerns(in, i) ==
    IF i > Len(in.line_items) THEN <<>>
    ELSE LET mpn == in.line_items[i].mpn
         IN (IF NoOffers(in, mpn)
             THEN <<Concern(mpn, "No pricing data available", "")>> ELSE <<>>)
                \o finance_pricing_concerns(in, i + 1)

\* the warning is raised as soon as the estimate reaches the budget
finance_budget_concerns_at_limit(in) ==
    LET total == running_total(in, Len(in.line_items))
    IN IF total >= in.budget_total
       THEN <<Concern("", "exceeds budget", "")>>
       ELSE IF total * 10 > in.budget_total * 9
            THEN <<Concern("", "over 90% of budget", "")>>
            ELSE <<>>

\* finance.py lines 74-78: the budget concern, if any (0.9 * budget as tenths)
finance_budget_concerns(in) ==
    LET total == running_total(in, Len(in.line_items))
    IN IF total > in.budget_total
       THEN <<Concern("", "exceeds budget", "")>>
       ELSE IF total * 10 > in.budget_total * 9
            THEN <<Concern("", "over 90% of budget", "")>>
            ELSE <<>>

finance_concerns(in) == finance_pricing_concerns(in, 1) \o finance_budget_concerns(in)

\* key_concerns of role r as it stands when the coroutine reaches its await
key_concerns(r, in) ==
    CASE r = "engineering" -> engineering_concerns(in, 1)
      [] r = "sourcing" -> sourcing_concerns(in, 1)
      [] r = "finance" -> finance_concerns(in)

\* evaluate_batch has not returned
NoAssessment ==
    [state |-> "none", agent_name |-> "", parts_evaluated |-> <<>>,
     analysis_notes |-> "", key_concerns |-> <<>>]

\* the result of a batch without line items
EmptyAssessment(r) ==
    [state |-> "returned", agent_name |-> AgentName[r], parts_evaluated |-> <<>>,
     analysis_notes |-> "No parts to evaluate.", key_concerns |-> <<>>]

\* the SpecialistAgentResult built after the await
Assessment(r, in, concerns) ==
    [state |-> "returned", agent_name |-> AgentName[r],
     parts_evaluated |-> [i \in 1..Len(in.line_items) |-> in.line_items[i].mpn],
     analysis_notes |-> in.raw[r], key_concerns |-> concerns]

\* a coroutine before its first step
AtStart == [at |-> "start", key_concerns |-> <<>>]

InitEval ==
    /\ FlowIdle
    /\ SynthIdle
    /\ EnrichOnce
    /\ RunsIdle
    /\ KeysIdle
    /\ ParseIdle
    /\ eval_in \in EvalInputs
    /\ eval_pc = [r \in Roles |-> AtStart]
    /\ eval_out = [r \in Roles |-> NoAssessment]

\* `if not line_items: return SpecialistAgentResult(...)`
evaluate_batch_empty(r) ==
    /\ eval_pc[r].at = "start"
    /\ eval_in.line_items = <<>>
    /\ eval_pc' = [eval_pc EXCEPT ![r].at = "returned"]
    /\ eval_out' = [eval_out EXCEPT ![r] = EmptyAssessment(r)]
    /\ UNCHANGED <<flow_vars, synth_vars, enrich_vars, runs_vars, key_vars, parse_vars, eval_in>>

\* from the first line to `await crew.kickoff_async()`: the stores are read
\* and key_concerns is filled, all in one step of the event loop
evaluate_batch_to_await(r) ==
    /\ eval_pc[r].at = "start"
    /\ eval_in.line_items # <<>>
    /\ eval_pc' = [eval_pc EXCEPT ![r] = [at |-> "awaiting",
                                          key_concerns |-> key_concerns(r, eval_in)]]
    /\ UNCHANGED <<flow_vars, synth_vars, enrich_vars, runs_vars, key_vars, parse_vars, eval_in, eval_out>>

\* engineering reuses the concerns of its earlier call when there is one
engineering_evaluate_batch_cached ==
    /\ eval_pc["engineering"].at = "start"
    /\ eval_in.line_items # <<>>
    /\ eval_pc' = [eval_pc EXCEPT !["engineering"] =
                       [at |-> "awaiting",
                        key_concerns |->
                            IF eval_out["engineering"].state = "returned"
                            THEN eval_out["engineering"].key_concerns
                            ELSE key_concerns("engineering", eval_in)]]
    /\ UNCHANGED <<flow_vars, synth_vars, enrich_vars, runs_vars, key_vars, parse_vars, eval_in, eval_out>>

\* engineering.py lines 40-141
engineering_evaluate_batch == evaluate_batch_to_await("engineering")

\* sourcing leaves an empty PartOffers in the store for every part it looked
\* up and did not find
sourcing_evaluate_batch_caching ==
    /\ eval_pc["sourcing"].at = "start"
    /\ eval_in.line_items # <<>>
    /\ eval_pc' = [eval_pc EXCEPT !["sourcing"] =
                       [at |-> "awaiting", key_concerns |-> key_concerns("sourcing", eval_in)]]
    /\ eval_in' = [eval_in EXCEPT !.offers =
                       [m \in MPNs |-> IF eval_in.offers[m].found THEN eval_in.offers[m]
                                       ELSE [found |-> TRUE, offers |-> <<>>]]]
    /\ UNCHANGED <<flow_vars, synth_vars, enrich_vars, runs_vars, key_vars, parse_vars, eval_out>>

\* sourcing.py lines 41-161
sourcing_evaluate_batch == evaluate_batch_to_await("sourcing")

\* finance.py lines 38-137
finance_evaluate_batch == evaluate_batch_to_await("finance")

\* from the await to the return: the result is built from the language
\* model's answer and the key_concerns gathered before the await
evaluate_batch_return(r) ==
    /\ eval_pc[r].at = "awaiting"
    /\ eval_pc' = [eval_pc EXCEPT ![r].at = "returned"]
    /\ eval_out' = [eval_out EXCEPT ![r] = Assessment(r, eval_in, eval_pc[r].key_concerns)]
    /\ UNCHANGED <<flow_vars, synth_vars, enrich_vars, runs_vars, key_vars, parse_vars, eval_in>>

NextEval ==
    \/ \E r \in Roles : evaluate_batch_empty(r)
    \/ engineering_evaluate_batch
    \/ sourcing_evaluate_batch
    \/ finance_evaluate_batch
    \/ \E r \in Roles : evaluate_batch_return(r)

SpecEval == InitEval /\ [][NextEval]_vars

-----------------------------------------------------------------------------
(* What a run persists of the review of a banned part *)

\* the synthesizer's structured output for one part: its verdict, and the
\* texts of the language model (resolution_rationale, engineering_findings)
SynthTexts == [verdict : {APPROVED, REJECTED}, resolution_rationale : Raws,
               engineering_findings : Raws]

\* nothing of the review has been persisted
NotPersisted ==
    [persisted |-> FALSE, trace_reasoning |-> <<>>, decision_status |-> None,
     decision_reasoning |-> "", decision_findings |-> ""]

\* bom_flow.py lines 258-276 and 330-367: the trace steps of the three
\* specialists carry analysis_notes as reasoning, the trace step of the
\* verdict carries resolution_rationale, and the decision record of the item
\* carries the verdict, resolution_rationale and engineering_findings;
\* key_concerns is part of none of them
Persisted(assessments, llm) ==
    [persisted |-> TRUE,
     trace_reasoning |-> <<assessments["engineering"].analysis_notes,
                           assessments["sourcing"].analysis_notes,
                           assessments["finance"].analysis_notes,
                           llm.resolution_rationale>>,
     decision_status |-> llm.verdict,
     decision_reasoning |-> llm.resolution_rationale,
     decision_findings |-> llm.engineering_findings]

\* a batch with offers for every part and a budget of 6
InitAudit ==
    /\ FlowIdle
    /\ EnrichOnce
    /\ RunsIdle
    /\ KeysIdle
    /\ ParseIdle
    /\ eval_in \in {in \in EvalInputs :
                       /\ in.budget_total = 6
                       /\ \A m \in MPNs : in.offers[m].offers # <<>>}
    /\ eval_pc = [r \in Roles |-> AtStart]
    /\ eval_out = [r \in Roles |-> NoAssessment]
    /\ synth_in \in SynthTexts
    /\ synth_out = NotPersisted

\* the gather has returned, the synthesizer has answered, and the flow writes
\* the trace steps and the decision record
persist_review ==
    /\ \A r \in Roles : eval_out[r].state = "returned"
    /\ synth_out = NotPersisted
    /\ synth_out' = Persisted(eval_out, synth_in)
    /\ UNCHANGED <<flow_vars, synth_in, enrich_vars, runs_vars, key_vars, parse_vars, eval_vars>>

NextAudit ==
    \/ NextEval
    \/ persist_review

SpecAudit == InitAudit /\ [][NextAudit]_vars

-----------------------------------------------------------------------------
(* Evaluations while an operator commits to the knowledge store *)

\* a batch with offers for every part, a budget of 6 and silent language models
InitEvalOps ==
    /\ FlowIdle
    /\ SynthIdle
    /\ EnrichOnce
    /\ RunsIdle
    /\ KeysIdle
    /\ ParseIdle
    /\ eval_in \in {in \in EvalInputs :
                       /\ in.budget_total = 6
                       /\ \A m \in MPNs : in.offers[m].offers # <<>>
                       /\ \A r \in Roles : in.raw[r] = ""}
    /\ eval_pc = [r \in Roles |-> AtStart]
    /\ eval_out = [r \in Roles |-> NoAssessment]

\* an operator bans P1, changes the reason of its ban or lifts it; the commit
\* can fall between any two steps of the evaluators
operator_commit ==
    /\ \E reason \in BanReasons :
           /\ reason # eval_in.banned["P1"]
           /\ eval_in' = [eval_in EXCEPT !.banned["P1"] = reason]
    /\ UNCHANGED <<flow_vars, synth_vars, enrich_vars, runs_vars, key_vars, parse_vars, eval_pc, eval_out>>

\* a later run calls evaluate_batch of the same agent instance again; the
\* result of the earlier call stays until the new call returns
evaluate_batch_again(r) ==
    /\ eval_pc[r].at = "returned"
    /\ eval_pc' = [eval_pc EXCEPT ![r] = AtStart]
    /\ UNCHANGED <<flow_vars, synth_vars, enrich_vars, runs_vars, key_vars, parse_vars, eval_in, eval_out>>

NextEvalOps ==
    \/ NextEval
    \/ operator_commit
    \/ \E r \in Roles : evaluate_batch_again(r)

SpecEvalOps == InitEvalOps /\ [][NextEvalOps]_vars

-----------------------------------------------------------------------------
(* Two runs of the flow against the same Project Store *)

RunIds == {"A", "B"}
ProjectIds == {"PRJ-1", "PRJ-2"}

\* a run that has not created its project
NoRun(rows) == [pc |-> "intake", project_id |-> "", project |-> NoProject, bom |-> rows]

\* no offers for any part
NoOffersYet == [m \in MPNs |-> <<>>]

\* the id create_project gives a new project: one no record of the store has
NewProjectId(db) ==
    IF db["PRJ-1"] = NoProject THEN "PRJ-1" ELSE "PRJ-2"

InitRuns ==
    /\ FlowIdle
    /\ SynthIdle
    /\ EnrichOnce
    /\ ParseIdle
    /\ EvalIdle
    /\ KeysIdle
    /\ projects_db = [id \in ProjectIds |-> NoProject]
    /\ offers_dbs = [id \in ProjectIds |-> NoOffersYet]
    /\ runs \in [RunIds -> {NoRun(rows) : rows \in BOMs}]

\* self.project_store.update_project(self._project) on the shared store
SaveCopy(db, p) == [db EXCEPT ![p.project_id] = p]

\* lines 108-114: the run creates its project and keeps its id in its state
run_intake(r) ==
    /\ runs[r].pc = "intake"
    /\ LET p == [create_project(runs[r].bom) EXCEPT !.project_id = NewProjectId(projects_db)]
       IN /\ projects_db' = SaveCopy(projects_db, p)
          /\ runs' = [runs EXCEPT ![r].project_id = p.project_id, ![r].project = p,
                                  ![r].pc = "enrich_load"]
    /\ UNCHANGED <<flow_vars, synth_vars, enrich_vars, parse_vars, eval_vars, key_vars,
                   offers_dbs>>

\* the positions at which a stage reloads its project
LoadPcs == {"enrich_load", "review_load", "decide_load", "complete_load"}

\* the stage a reload belongs to
StageAfterLoad ==
    [p \in LoadPcs |->
        CASE p = "enrich_load" -> "enrich"
          [] p = "review_load" -> "review"
          [] p = "decide_load" -> "decide"
          [] p = "complete_load" -> "complete"]

\* run_load that reloads the project created last instead of the run's own
run_load_latest(r) ==
    /\ runs[r].pc \in LoadPcs
    /\ runs' = [runs EXCEPT ![r].project =
                                IF projects_db["PRJ-2"] # NoProject
                                THEN projects_db["PRJ-2"] ELSE projects_db["PRJ-1"],
                            ![r].pc = StageAfterLoad[runs[r].pc]]
    /\ UNCHANGED <<flow_vars, synth_vars, enrich_vars, parse_vars, eval_vars, key_vars,
                   projects_db, offers_dbs>>

\* lines 136, 217, 302, 395: self._project =
\* self.project_store.get_project(self.state.project_id)
run_load(r) ==
    /\ runs[r].pc \in LoadPcs
    /\ runs' = [runs EXCEPT ![r].project = projects_db[runs[r].project_id],
                            ![r].pc = StageAfterLoad[runs[r].pc]]
    /\ UNCHANGED <<flow_vars, synth_vars, enrich_vars, parse_vars, eval_vars, key_vars,
                   projects_db, offers_dbs>>

\* the verdict the synthesizer gives every part in these runs
Approval(mpn) ==
    [mpn |-> mpn, verdict |-> APPROVED, selected_supplier_id |-> "S1", final_line_cost |-> 5]

\* what a stage does to the copy it loaded
StageResult(stage, p) ==
    CASE stage = "enrich" ->
             [p EXCEPT !.status = "enriching",
                       !.line_items = [i \in DOMAIN p.line_items |-> EnrichItem(p.line_items[i])]]
      [] stage = "review" ->
             [p EXCEPT !.status = "agent_review",
                       !.line_items = [i \in DOMAIN p.line_items |-> MarkItem(p.line_items[i])]]
      [] stage = "decide" ->
             [p EXCEPT !.status = "final_decision",
                       !.line_items = [i \in DOMAIN p.line_items |->
                                          ApplyVerdict(p.line_items[i],
                                                       Approval(p.line_items[i].mpn))]]
      [] stage = "complete" -> [p EXCEPT !.status = "complete"]

\* the position after a stage
PcAfterStage ==
    [stage \in {"enrich", "review", "decide", "complete"} |->
        CASE stage = "enrich" -> "review_load"
          [] stage = "review" -> "decide_load"
          [] stage = "decide" -> "complete_load"
          [] stage = "complete" -> "done"]

\* lines 137-146, 218-281, 303-378, 396-397: the stage changes its copy,
\* enrich fills the Offers Store of the project, and the copy is saved
run_stage(r) ==
    /\ runs[r].pc \in DOMAIN PcAfterStage
    /\ LET p == StageResult(runs[r].pc, runs[r].project)
       IN /\ projects_db' = SaveCopy(projects_db, p)
          /\ offers_dbs' =
                 IF runs[r].pc = "enrich"
                 THEN [offers_dbs EXCEPT ![runs[r].project_id] =
                           EnrichOffers(@, p.line_items, 1)]
                 ELSE offers_dbs
          /\ runs' = [runs EXCEPT ![r].project = p, ![r].pc = PcAfterStage[runs[r].pc]]
    /\ UNCHANGED <<flow_vars, synth_vars, enrich_vars, parse_vars, eval_vars, key_vars>>

NextRuns ==
    \/ \E r \in RunIds : run_intake(r)
    \/ \E r \in RunIds : run_load(r)
    \/ \E r \in RunIds : run_stage(r)

SpecRuns == InitRuns /\ [][NextRuns]_vars

-----------------------------------------------------------------------------
(* ApiKeyStore *)

\* the raw keys a caller can present: 0 was never issued, n is the raw key of
\* the n-th key created (_generate_key draws 32 random bytes, taken as fresh)
RawKeys == 0..MaxKeys

\* the key ids a caller can name: 0 is the id of no key, n the id of the n-th
\* key created (a random uuid prefix, taken as fresh)
KeyIds == 0..MaxKeys

\* _hash_key: SHA-256 of the raw key, one hash per raw key
hash_key(raw_key) == 1000 + 7 * raw_key

\* no call has been made
NoCall == [op |-> "none", arg |-> 0, found |-> FALSE, key_id |-> 0, last_used |-> 0]

\* the rows a statement's where clause selects
RowsWhere(rows, Cond(_)) == {k \in 1..Len(rows) : Cond(rows[k])}

InitKeys ==
    /\ FlowIdle
    /\ SynthIdle
    /\ EnrichOnce
    /\ RunsIdle
    /\ ParseIdle
    /\ EvalIdle
    /\ key_rows = <<>>
    /\ key_clock = 1
    /\ key_call = NoCall

\* lines 68-114: a new row with a fresh id, the hash of a fresh raw key,
\* is_active true and no last_used
create_key ==
    /\ Len(key_rows) < MaxKeys
    /\ LET n == Len(key_rows) + 1
       IN /\ key_rows' = Append(key_rows, [key_id |-> n, hashed_key |-> hash_key(n),
                                           is_active |-> TRUE, last_used |-> 0])
          /\ key_call' = [op |-> "create_key", arg |-> n, found |-> TRUE, key_id |-> n,
                          last_used |-> 0]
    /\ UNCHANGED <<flow_vars, synth_vars, enrich_vars, runs_vars, parse_vars, eval_vars,
                   key_clock>>

\* validate_key that selects the row by its hash alone
validate_key_any(raw_key) ==
    LET hit == RowsWhere(key_rows, LAMBDA row : row.hashed_key = hash_key(raw_key))
    IN IF hit = {}
       THEN /\ key_call' = [op |-> "validate_key", arg |-> raw_key, found |-> FALSE,
                            key_id |-> 0, last_used |-> 0]
            /\ UNCHANGED <<key_rows, key_clock>>
       ELSE /\ key_clock < MaxClock
            /\ LET k == CHOOSE k \in hit : TRUE
               IN /\ key_rows' = [key_rows EXCEPT ![k].last_used = key_clock]
                  /\ key_call' = [op |-> "validate_key", arg |-> raw_key, found |-> TRUE,
                                  key_id |-> key_rows[k].key_id, last_used |-> key_clock]
            /\ key_clock' = key_clock + 1

\* lines 116-151: select the active row with the hash of the raw key; None
\* without a write when there is none, else last_used is set to now and the
\* key is returned
validate_key(raw_key) ==
    LET hit == RowsWhere(key_rows,
                         LAMBDA row : row.hashed_key = hash_key(raw_key) /\ row.is_active)
    IN IF hit = {}
       THEN /\ key_call' = [op |-> "validate_key", arg |-> raw_key, found |-> FALSE,
                            key_id |-> 0, last_used |-> 0]
            /\ UNCHANGED <<key_rows, key_clock>>
       ELSE /\ key_clock < MaxClock
            /\ LET k == CHOOSE k \in hit : TRUE
               IN /\ key_rows' = [key_rows EXCEPT ![k].last_used = key_clock]
                  /\ key_call' = [op |-> "validate_key", arg |-> raw_key, found |-> TRUE,
                                  key_id |-> key_rows[k].key_id, last_used |-> key_clock]
            /\ key_clock' = key_clock + 1

\* a caller presents a raw key
validate_key_call ==
    /\ \E raw_key \in RawKeys : validate_key(raw_key)
    /\ UNCHANGED <<flow_vars, synth_vars, enrich_vars, runs_vars, parse_vars, eval_vars>>

\* lines 153-170: is_active of the rows with the key id is set to false; the
\* result is whether a row matched
revoke_key(key_id) ==
    LET hit == RowsWhere(key_rows, LAMBDA row : row.key_id = key_id)
    IN /\ key_rows' = [k \in 1..Len(key_rows) |->
                          IF k \in hit THEN [key_rows[k] EXCEPT !.is_active = FALSE]
                          ELSE key_rows[k]]
       /\ key_call' = [op |-> "revoke_key", arg |-> key_id, found |-> hit # {},
                       key_id |-> 0, last_used |-> 0]

\* a caller revokes a key id
revoke_key_call ==
    /\ \E key_id \in KeyIds : revoke_key(key_id)
    /\ UNCHANGED <<flow_vars, synth_vars, enrich_vars, runs_vars, parse_vars, eval_vars,
                   key_clock>>

NextKeys ==
    \/ create_key
    \/ validate_key_call
    \/ revoke_key_call

SpecKeys == InitKeys /\ [][NextKeys]_vars

-----------------------------------------------------------------------------
(* Properties *)

IsPrefix(a, b) == Len(a) <= Len(b) /\ SubSeq(b, 1, Len(a)) = a

\* the edges of the line item status path, and staying put
Edge(a, b) ==
    \/ a = b
    \/ a = PENDING /\ b = ENRICHED
    \/ a = ENRICHED /\ b = PENDING_FINAL_DECISION
    \/ a = PENDING_FINAL_DECISION /\ b \in {PENDING_PURCHASE, FAILED}

\* every item of record p is, in record q, at the same place or one edge further
ForwardOnly(p, q) ==
    \/ p = NoProject
    \/ /\ Len(q.line_items) = Len(p.line_items)
       /\ \A i \in DOMAIN p.line_items :
             Edge(p.line_items[i].status, q.line_items[i].status)

StatusIn(p, S) == \E i \in DOMAIN p.line_items : p.line_items[i].status \in S

RunEnded == pc \in {"done", "aborted"}

\* the mpns of the items submitted to the synthesizer
BatchMPNs == {project.line_items[i].mpn : i \in batch}

\* final_decision has gone through its loop and saved the project
Decided ==
    /\ final_report # NoReport
    /\ pc \in {"final_decision_done", "complete", "complete_log", "done"}

\* C1: every change of a line item's status, in the working copy and in the
\* persisted record, is an edge of PENDING -> ENRICHED -> PENDING_FINAL_DECISION
\* -> (PENDING_PURCHASE | FAILED); no item ever moves back.
C1_ForwardPath ==
    [][ForwardOnly(store, store') /\ ForwardOnly(project, project')]_vars

\* a finished run in which one item went the whole path to PENDING_PURCHASE
\* and another to FAILED
C1_Witness ==
    /\ pc = "done"
    /\ StatusIn(store, {PENDING_PURCHASE})
    /\ StatusIn(store, {FAILED})

\* C2: an item is PENDING_FINAL_DECISION (or beyond), in the working copy or in
\* the store, only when all three evaluators have returned; while one of them
\* is running or has raised, no item of the batch is in that status.
C2_JoinBarrier ==
    (\/ StatusIn(project, {PENDING_FINAL_DECISION, PENDING_PURCHASE, FAILED})
     \/ StatusIn(store, {PENDING_FINAL_DECISION, PENDING_PURCHASE, FAILED}))
        => \A r \in Roles : tasks[r] = "returned" /\ results[r] # NoResult

\* the three evaluators have returned and the batch was moved and saved
C2_Witness ==
    /\ pc = "parallel_review_done"
    /\ \A i \in DOMAIN store.line_items :
          store.line_items[i].status = PENDING_FINAL_DECISION
    /\ store.line_items # <<>>

\* C3: after final_decision every submitted item is PENDING_PURCHASE if its
\* verdict is APPROVED and FAILED otherwise; none is left in another status.
C3_VerdictDecidesStatus ==
    Decided =>
        \A i \in batch :
            LET item == store.line_items[i]
                approved == /\ HasVerdict(final_report.verdicts, item.mpn)
                            /\ VerdictFor(final_report.verdicts, item.mpn).verdict = APPROVED
            IN item.status = IF approved THEN PENDING_PURCHASE ELSE FAILED

\* C4: when an evaluator or the synthesizer raised, error is set, the project's
\* status is failed, and the project is not complete.
C4_RaiseFailsRun ==
    pc = "aborted" =>
        /\ error # None
        /\ store.status = "failed"
        /\ store.status # "complete"

\* C5: when the report lacks a verdict for the MPN of a submitted item, the run
\* fails: error is set and the project is not marked complete.
C5_MissingVerdictFails ==
    (/\ pc = "done"
     /\ final_report # NoReport
     /\ \E m \in BatchMPNs : ~HasVerdict(final_report.verdicts, m))
        => error # None /\ store.status # "complete"

\* C6: when the report holds a verdict for an MPN of no submitted item, the run
\* fails: the project does not proceed to complete.
C6_ForeignVerdictFails ==
    (/\ pc = "done"
     /\ final_report # NoReport
     /\ \E k \in DOMAIN final_report.verdicts :
           final_report.verdicts[k].mpn \notin BatchMPNs)
        => error # None /\ store.status # "complete"

\* C7: a run that has ended has reached a terminal state: the project is
\* complete, or the run is failed (error set, or status failed).
C7_EndsTerminal ==
    RunEnded =>
        \/ store.status = "complete"
        \/ store.status = "failed"
        \/ error # None

ErrorStep == FlowTraceStep("intake", None, "ERROR")

InTrace(s, trace) == \E k \in DOMAIN trace : trace[k] = s

\* C8 as stated: once error is set, the project's trace holds a step that
\* records the failure.
C8_FailureInProjectTrace ==
    error # None => InTrace(ErrorStep, store.trace)

\* a no-op stage: nothing but the position of the run changes
PassThrough ==
    /\ UNCHANGED <<error, project, store, offers, emitted, tasks, results,
                   intel_report, final_report, batch>>
    /\ InTrace(ErrorStep, emitted)

\* C8 (amended): a step taken with error set changes neither the project, the
\* store, the offers, the emitted steps nor any collaborator's state, and the
\* step recording the failure has been handed to the trace consumer.
C8_ErrorPassThrough ==
    [][error # None => PassThrough]_vars

\* a failed intake whose run went through every later stage
C8_Witness ==
    /\ pc = "done"
    /\ error # None
    /\ InTrace(ErrorStep, emitted)

MarketIntelPcs ==
    {"market_intel", "market_intel_gather", "market_intel_report",
     "market_intel_risks", "market_intel_alerts"}

LastStep(trace) == trace[Len(trace)]

\* what a step of gather_market_intel must do
MarketIntelStepOk ==
    /\ error' = error
    /\ store'.status # "failed"
    /\ pc' \in MarketIntelPcs \cup {"parallel_review"}
    /\ (pc' = "parallel_review" /\ error = None) =>
          /\ LastStep(store'.trace).step = "market_intel"
          /\ (LastStep(store'.trace).message \in
                 {"not configured - skipping", "gathering failed",
                  "No market intelligence gathered"}) => ~intel_report'.items

\* C9: no step of gather_market_intel changes error, marks the project failed
\* or ends the run; the stage hands over to parallel_review with a market_intel
\* step as the last persisted step and, when the provider was not configured,
\* raised or returned nothing, with no intelligence items.
C9_MarketIntelNeverFails ==
    [][(pc \in MarketIntelPcs) => MarketIntelStepOk]_vars

\* the provider raised and the run stands at the entry of parallel_review
C9_Witness ==
    /\ pc = "parallel_review"
    /\ error = None
    /\ store.trace # <<>>
    /\ LastStep(store.trace).message = "gathering failed"
    /\ ~intel_report.present

\* the part of parallel_agent_review and final_decision up to their await
BeforeAwait ==
    {"parallel_review", "parallel_review_load", "parallel_review_gather",
     "final_decision", "final_decision_load", "final_decision_await"}

\* what a step up to and including the failure must leave in the store
FailureStepOk ==
    /\ (pc \in BeforeAwait /\ pc' \in BeforeAwait \cup {"aborted"}) =>
          /\ IsPrefix(store.trace, store'.trace)
          /\ store'.line_items = store.line_items
    /\ (pc' = "aborted") => (store' = store)

\* C10: from the entry of a stage to the failure of its evaluator or
\* synthesizer, the persisted trace only grows at its end and the persisted
\* line items do not change; the failure itself writes nothing.
C10_FailureKeepsCommitted ==
    [][FailureStepOk]_vars

\* the synthesizer raised; the store still holds the reviewed items and the trace
C10_Witness ==
    /\ pc = "aborted"
    /\ StatusIn(store, {PENDING_FINAL_DECISION})
    /\ InTrace(FlowTraceStep("parallel_review", None, "Parallel review complete"), store.trace)

-----------------------------------------------------------------------------
(* The empty BOM *)

EmptyBomRun == bom_ok /\ bom = <<>>

\* C11: a BOM with zero rows is valid: intake sets no error, the run goes
\* through every stage, a Final Decision Report with 0 verdicts and
\* total_spend 0 is produced, and the project's status reaches complete.
C11_EmptyBomReport ==
    (EmptyBomRun /\ pc \in {"done", "returned"}) =>
        /\ error = None
        /\ store.status = "complete"
        /\ final_report # NoReport
        /\ Len(final_report.verdicts) = 0
        /\ final_report.total_spend = 0

-----------------------------------------------------------------------------
(* Input errors *)

\* C12: when the BOM or the intake document cannot be read or parsed, the run
\* stops at intake: error holds the reason of the parse failure, no project is
\* created in the store, and the reason reaches the caller of the run.
C12_ParseFailureSurfaced ==
    (~bom_ok /\ returned.done) =>
        /\ error = "parse error"
        /\ store = NoProject
        /\ returned.error = "parse error"

-----------------------------------------------------------------------------
(* Stage order *)

\* the labels of each stage, in the order of the @start/@listen chain
StagePcs ==
    <<{"intake", "intake_parse", "intake_created"},
      {"enrich", "enrich_items", "enrich_done"},
      {"market_intel", "market_intel_gather", "market_intel_report",
       "market_intel_risks", "market_intel_alerts"},
      {"parallel_review", "parallel_review_load", "parallel_review_gather",
       "parallel_review_engineering", "parallel_review_sourcing",
       "parallel_review_finance", "parallel_review_mark", "parallel_review_done"},
      {"final_decision", "final_decision_load", "final_decision_await",
       "final_decision_loop", "final_decision_done"},
      {"complete", "complete_log"},
      {"done", "returned"}>>

\* the label at which each stage starts
EntryPc == <<"intake", "enrich", "market_intel", "parallel_review", "final_decision",
             "complete", "done">>

\* which stage writes the trace steps of a given name
StepNames ==
    <<{"intake"}, {"enrich"}, {"market_intel"},
      {"parallel_review", "engineering", "sourcing", "finance"},
      {"final_decision"}, {"complete"}>>

Stopped == {"aborted", "callback_raised"}

StageOfPc(p) == CHOOSE k \in 1..7 : p \in StagePcs[k]
StageOfStep(s) == CHOOSE k \in 1..6 : s.step \in StepNames[k]

\* no step is followed by a step of an earlier stage
InStageOrder(trace) ==
    \A i \in 1..(Len(trace) - 1) : StageOfStep(trace[i]) <= StageOfStep(trace[i + 1])

StageOrderStep ==
    pc \notin Stopped =>
        /\ pc' \in Stopped \/ StageOfPc(pc') \in {StageOfPc(pc), StageOfPc(pc) + 1}
        /\ (pc' \notin Stopped /\ pc' # pc /\ pc' \in {EntryPc[k] : k \in 1..7})
               => StageOfPc(pc') = StageOfPc(pc) + 1
        /\ (pc' \notin Stopped /\ StageOfPc(pc') = StageOfPc(pc) + 1)
               => pc' = EntryPc[StageOfPc(pc')]
        /\ emitted' # emitted => StageOfStep(emitted'[Len(emitted')]) = StageOfPc(pc)
        /\ InStageOrder(emitted')
        /\ InStageOrder(store'.trace)

\* C13: the stages run strictly in the order intake, enrich, marketIntel,
\* parallelReview, finalDecision, complete: a stage starts only when the one
\* before it has returned, no stage runs twice, and the stage names of the
\* trace steps appear in this order.
C13_StageOrder == [][StageOrderStep]_vars

\* a complete run has written steps of all six stages and of the three specialists
C13_Witness ==
    /\ pc = "returned"
    /\ store.status = "complete"
    /\ \A k \in 1..6 : \A n \in StepNames[k] :
           \E i \in 1..Len(store.trace) : store.trace[i].step = n

-----------------------------------------------------------------------------
(* complete is terminal *)

\* C14 as stated: once the persisted status is complete, nothing writes the
\* project again: its status, line items and trace stay as they are.
C14_NoWriteAfterComplete ==
    [][store.status = "complete" => store' = store]_vars

CompleteStep == FlowTraceStep("complete", None, "processing complete")

AfterCompleteStep ==
    store.status = "complete" =>
        /\ store'.status = "complete"
        /\ store'.line_items = store.line_items
        /\ store'.context = store.context
        /\ \/ store'.trace = store.trace
           \/ /\ pc = "complete_log"
              /\ LastStep(store.trace) # CompleteStep
              /\ store'.trace = Append(store.trace, CompleteStep)

\* C14: once the persisted status is complete, status and line items never
\* change again, and the only later write is the one step that the complete
\* stage itself appends to the trace before it returns.
C14_CompleteIsTerminal == [][AfterCompleteStep]_vars

\* the run has returned with the project complete and the complete stage's
\* step last in its persisted trace
C14_Witness ==
    /\ returned.done
    /\ returned.project.status = "complete"
    /\ LastStep(store.trace) = CompleteStep

-----------------------------------------------------------------------------
(* Trace steps on entry and on exit *)

StageName == <<"intake", "enrich", "market_intel", "parallel_review", "final_decision",
               "complete">>

\* this step appends one trace step named after stage k to the persisted trace
\* and leaves the store equal to the working copy
StepPersisted(k) ==
    /\ store' # NoProject
    /\ Len(store'.trace) = Len(store.trace) + 1
    /\ IsPrefix(store.trace, store'.trace)
    /\ LastStep(store'.trace).step = StageName[k]
    /\ store' = project'

\* stage k starts with error unset and its first step ends normally
Enters(k) == pc = EntryPc[k] /\ error = None /\ pc' \notin Stopped

\* stage k returns with error unset
Exits(k) == pc \in StagePcs[k] /\ pc' = EntryPc[k + 1] /\ error = None /\ error' = None

\* C15 as stated: every stage appends a trace step to the project's trace and
\* persists the project both on entry and on exit.
C15_EntryAndExitPersisted ==
    [][\A k \in 1..6 : (Enters(k) => StepPersisted(k)) /\ (Exits(k) => StepPersisted(k))]_vars

EntryAndExitStep ==
    /\ \A k \in 1..6 : Exits(k) => StepPersisted(k)
    /\ \A k \in 2..5 : Enters(k) => StepPersisted(k)
    /\ Enters(1) => (store' = NoProject /\ Len(emitted') = Len(emitted) + 1)
    /\ Enters(6) => (store'.status = "complete" /\ store'.trace = store.trace)

\* C15: every stage that runs with error unset appends a trace step to the
\* project's trace and persists the project when it returns, and enrich,
\* marketIntel, parallelReview and finalDecision also do so on entry; the
\* entry step of intake is produced before the project exists and is not
\* persisted, and complete persists the new status on entry without a step.
C15_ExitPersisted == [][EntryAndExitStep]_vars

\* the complete stage has returned, and the persisted trace starts with
\* intake's exit step, its entry step being absent
C15_Witness ==
    /\ pc = "done"
    /\ store.status = "complete"
    /\ store.trace[1].message # "Starting intake"
    /\ emitted[1].message = "Starting intake"
    /\ LastStep(store.trace).step = "complete"

-----------------------------------------------------------------------------
(* The persisted trace *)

\* C16: the persisted trace is append-only: from one persisted state of the
\* project to the next, the earlier trace is a prefix of the later one, also
\* in the stages that reload the project from the store.
C16_TraceAppendOnly == [][IsPrefix(store.trace, store'.trace)]_vars

\* a reloading stage has written its steps behind those of the stages before it
C16_Witness ==
    /\ pc = "final_decision_loop"
    /\ Len(store.trace) >= 8
    /\ store.trace[1].step = "intake"
    /\ LastStep(store.trace).step = "final_decision"

\* C17 as stated: at any point of a run, the steps delivered to the callback
\* are exactly the persisted trace of the project.
C17_DeliveredEqualsPersisted == emitted = store.trace

StartStep == FlowTraceStep("intake", None, "Starting intake")

\* C17: between two calls of _log_step, the steps delivered to the callback
\* are intake's entry step followed by exactly the persisted trace of the
\* project; the steps produced while no project exists (intake's entry step
\* and the step of a failed parse) are delivered but never persisted.
C17_DeliveredIsStartThenPersisted ==
    /\ store # NoProject => emitted = <<StartStep>> \o store.trace
    /\ store = NoProject => emitted \in {<<>>, <<StartStep>>, <<StartStep, ErrorStep>>}

\* a complete run: every step but the first one delivered is in the persisted trace
C17_Witness ==
    /\ pc = "done"
    /\ store.status = "complete"
    /\ Len(store.trace) >= 10
    /\ Len(emitted) = Len(store.trace) + 1

-----------------------------------------------------------------------------
(* A failing callback *)

\* C18: an exception raised by the trace-step callback on any step does not
\* abort the pipeline: the remaining stages still run, and a run on a readable
\* BOM gets its project created and marked complete as it would with a
\* callback that never fails.
C18_CallbackFailureTolerated ==
    (pc = "callback_raised" /\ bom_ok) => (store # NoProject /\ store.status = "complete")

-----------------------------------------------------------------------------
(* The specialists' trace entries *)

HasEntry(trace, name) == \E j \in 1..Len(trace) : trace[j].step = name

\* an entry of role r is in the trace only when r's evaluator has returned
EntryAfterReturn(trace) ==
    \A r \in Roles : HasEntry(trace, r) => tasks[r] = "returned"

\* every final-decision entry has the entries of all three roles before it
AllBeforeFinalDecision(trace) ==
    \A k \in 1..Len(trace) :
        trace[k].step = "final_decision" =>
            \A r \in Roles : \E j \in 1..(k - 1) : trace[j].step = r

-----------------------------------------------------------------------------
(* The fan-out of parallelReview *)

\* the items of the stored project that are ENRICHED
EnrichedNow == {i \in 1..Len(store.line_items) : store.line_items[i].status = ENRICHED}

CallsOf(cs, r) == {i \in 1..Len(cs) : cs[i].role = r}

\* the step that starts the evaluators starts each of them once, on the same
\* batch, context and offers, with the market intel for sourcing alone
FanOutOk ==
    /\ calls = <<>>
    /\ batch' = EnrichedNow
    /\ \A r \in Roles :
           /\ Cardinality(CallsOf(calls', r)) = 1
           /\ tasks'[r] = "running"
    /\ \A i \in 1..Len(calls') :
           /\ calls'[i].items = EnrichedNow
           /\ calls'[i].context = store.context
           /\ calls'[i].offers = offers
           /\ calls'[i].market_intel =
                  IF calls'[i].role = "sourcing" THEN intel_report ELSE NoIntel

StatusOf(p, i) == p.line_items[i].status

ParallelReviewStep ==
    /\ IF pc = "parallel_review_load" /\ pc' = "parallel_review_gather"
       THEN FanOutOk
       ELSE calls' = calls
    /\ pc \in StagePcs[4] =>
           /\ Len(store'.line_items) = Len(store.line_items)
           /\ \A i \in 1..Len(store.line_items) :
                  StatusOf(store', i) # StatusOf(store, i) =>
                      /\ pc = "parallel_review_mark"
                      /\ i \in batch
                      /\ \A r \in Roles : tasks[r] = "returned"
    /\ pc = "parallel_review_mark" =>
           \A i \in batch : StatusOf(store', i) = PENDING_FINAL_DECISION

\* C20: parallelReview calls each of the three evaluators exactly once, all on
\* the same batch (every item that is ENRICHED when the stage starts), the
\* same context and the same offers, with the market intelligence going to
\* sourcing only; when all three have returned, exactly the items of the
\* batch move to PENDING_FINAL_DECISION and no other item changes status.
C20_FanOut == [][ParallelReviewStep]_vars

\* the batch of two items has been evaluated by the three roles and marked
C20_Witness ==
    /\ pc = "parallel_review_done"
    /\ Len(calls) = 3
    /\ Cardinality(batch) = 2
    /\ intel_report # NoIntel
    /\ \A i \in batch : StatusOf(store, i) = PENDING_FINAL_DECISION

-----------------------------------------------------------------------------
(* The totals of the Final Decision Report *)

\* C21: in every report the synthesizer returns, for any list of verdicts,
\* total_approved + total_rejected is the number of verdicts.
C21_CountsCoverVerdicts ==
    synth_out.state = "returned" =>
        synth_out.total_approved + synth_out.total_rejected = Len(synth_out.verdicts)

\* a returned report with an approved and a rejected verdict for the same part
C21_Witness ==
    /\ synth_out.state = "returned"
    /\ Len(synth_out.verdicts) = 2
    /\ synth_out.verdicts[1].mpn = synth_out.verdicts[2].mpn
    /\ synth_out.total_approved = 1
    /\ synth_out.total_rejected = 1

\* the sum of final_line_cost over the verdicts at the positions in S
RECURSIVE SumCosts(_, _)
SumCosts(verdicts, S) ==
    IF S = {} THEN 0
    ELSE LET i == CHOOSE k \in S : TRUE
         IN verdicts[i].final_line_cost + SumCosts(verdicts, S \ {i})

Positions(verdicts, v) == {i \in 1..Len(verdicts) : verdicts[i].verdict = v}

\* C22: in every report, total_spend is the sum of final_line_cost over
\* exactly the APPROVED verdicts; the line costs of REJECTED verdicts never
\* contribute.
C22_SpendIsApprovedCost ==
    synth_out.state = "returned" =>
        /\ synth_out.total_spend =
               SumCosts(synth_out.verdicts, Positions(synth_out.verdicts, APPROVED))
        /\ synth_out.total_spend =
               SumCosts(synth_out.verdicts, 1..Len(synth_out.verdicts))
               - SumCosts(synth_out.verdicts, Positions(synth_out.verdicts, REJECTED))

\* a report with an approved and a rejected verdict, both with a cost, whose
\* total is the approved cost alone
C22_Witness ==
    /\ synth_out.state = "returned"
    /\ \E i, j \in 1..Len(synth_out.verdicts) :
           /\ synth_out.verdicts[i].verdict = APPROVED
           /\ synth_out.verdicts[i].final_line_cost = 2
           /\ synth_out.verdicts[j].verdict = REJECTED
           /\ synth_out.verdicts[j].final_line_cost = 1
    /\ synth_out.total_spend = 2

\* q is the exact value of spend / budget_total * 100
IsUtilization(q, spend, budget_total) ==
    ~q.fault /\ q.num * budget_total = spend * 100 * q.den

IsZero(q) == ~q.fault /\ q.num = 0

\* the call got what it needs to build a report: no line items, or a
\* structured output of the language model
Answerable == synth_in.line_items = <<>> \/ synth_in.llm.structured

\* C23 as stated: budget_utilization_pct is total_spend / budget_total * 100
\* when budget_total is not zero, and 0 when it is zero; building the report
\* raises no division fault for any budget.
C23_UtilizationOfNonZeroBudget ==
    (synth_out # NotCalled /\ Answerable) =>
        /\ synth_out.state = "returned"
        /\ IF synth_in.budget_total # 0
           THEN IsUtilization(synth_out.budget_utilization_pct, synth_out.total_spend,
                              synth_in.budget_total)
           ELSE IsZero(synth_out.budget_utilization_pct)

\* C23: budget_utilization_pct is total_spend / budget_total * 100 when
\* budget_total is greater than zero, and 0 when it is zero or negative;
\* building the report raises no division fault for any budget.
C23_UtilizationOfPositiveBudget ==
    (synth_out # NotCalled /\ Answerable) =>
        /\ synth_out.state = "returned"
        /\ IF synth_in.budget_total > 0
           THEN IsUtilization(synth_out.budget_utilization_pct, synth_out.total_spend,
                              synth_in.budget_total)
           ELSE IsZero(synth_out.budget_utilization_pct)

\* money was spent against no budget, and the report says 0 percent
C23_Witness ==
    /\ synth_out.state = "returned"
    /\ synth_in.budget_total = 0
    /\ synth_out.total_spend > 0
    /\ IsZero(synth_out.budget_utilization_pct)

\* C24: in every report, total_approved + total_rejected is the number of
\* items decided, that is the number of line items handed to the synthesizer
\* (project_summary.total_parts).
C24_CountsCoverItems ==
    synth_out.state = "returned" =>
        /\ synth_out.total_parts = Len(synth_in.line_items)
        /\ synth_out.total_approved + synth_out.total_rejected = synth_out.total_parts

InputMPNs == {synth_in.line_items[i] : i \in 1..Len(synth_in.line_items)}

\* C25: the report holds exactly one verdict for each MPN of the input items:
\* every input MPN has a verdict, none has two, no verdict names an MPN that
\* is not in the input, and every verdict is APPROVED or REJECTED.
C25_OneVerdictPerMPN ==
    synth_out.state = "returned" =>
        /\ \A m \in InputMPNs :
               Cardinality({i \in 1..Len(synth_out.verdicts) :
                               synth_out.verdicts[i].mpn = m}) = 1
        /\ \A i \in 1..Len(synth_out.verdicts) :
               /\ synth_out.verdicts[i].mpn \in InputMPNs
               /\ synth_out.verdicts[i].verdict \in {APPROVED, REJECTED}

-----------------------------------------------------------------------------
(* enrich twice *)

\* C26: enrich is idempotent: after enrich has been invoked again on the same
\* project the Offers Store holds what it held after the invocation before:
\* for each MPN the later write replaces the earlier one and appends nothing,
\* also when several line items share an MPN.
C26_EnrichIdempotent ==
    (pc = "market_intel" /\ enrich_runs > 1) =>
        /\ offers = offers_once
        /\ \A m \in MPNs : Len(offers[m]) <= 1

\* enrich has run twice on a BOM whose two rows share one MPN
C26_Witness ==
    /\ pc = "market_intel"
    /\ enrich_runs = 2
    /\ error = None
    /\ Len(bom) = 2
    /\ bom[1] = bom[2]
    /\ offers[bom[1]] # <<>>

-----------------------------------------------------------------------------
(* Defaults of intake *)

\* C27: intake never raises on a BOM row whose quantity or MPN is absent or
\* malformed: every row still yields a line item, the quantity is defaulted so
\* that it is at least 1, the MPN may be empty, and the run does not fail at
\* intake because of that row.
C27_RowsDefaulted ==
    bom_items # NotParsed =>
        /\ bom_items.state = "returned"
        /\ Len(bom_items.items) = Len(csv_rows)
        /\ \A i \in 1..Len(bom_items.items) : bom_items.items[i].quantity >= 1


\* C28: every field of the intake document is optional: whichever sections
\* and fields are absent, a document with no sections at all included, intake
\* succeeds and the context holds the defaults: budget 0 when unset, no
\* compliance standards when unset, a maximum lead time of 30 days when unset.
C28_EveryFieldOptional ==
    intake_context # IntakeNotParsed =>
        /\ intake_context.state = "returned"
        /\ "budget_total" \notin intake_doc.requirements.present
               => intake_context.context.budget_total = 0
        /\ "standards" \notin intake_doc.compliance.present
               => intake_context.context.standards = <<>>
        /\ "max_lead_time_days" \notin intake_doc.sourcing_constraints.present
               => intake_context.context.max_lead_time_days = 30

-----------------------------------------------------------------------------
(* The specialist evaluators *)

\* the result of role r names the MPN in one of its concerns
Names(r, mpn) ==
    \E k \in 1..Len(eval_out[r].key_concerns) : eval_out[r].key_concerns[k].mpn = mpn

\* the line items of the batch that have no offers
ItemsWithoutOffers ==
    {i \in 1..Len(eval_in.line_items) : NoOffers(eval_in, eval_in.line_items[i].mpn)}

\* role r has reported every line item without offers
ReportsMissingOffers(r) ==
    \A i \in ItemsWithoutOffers : Names(r, eval_in.line_items[i].mpn)

\* C29: each of the three evaluators tolerates line items without offers: the
\* evaluation returns, and for every such item the concerns of its result hold
\* an entry that names the item's MPN.
C29_MissingOffersReported ==
    \A r \in Roles : eval_out[r].state = "returned" => ReportsMissingOffers(r)


\* what evaluate_batch of role r returns for the shared inputs
AssessmentOf(r, in) ==
    IF in.line_items = <<>> THEN EmptyAssessment(r)
    ELSE Assessment(r, in, key_concerns(r, in))

\* one step of the three coroutines: the shared inputs are left as they were,
\* only the coroutine that moved wrote a result, and every result there is
\* the one its role returns for the shared inputs
EvalFrameStep ==
    /\ eval_in' = eval_in
    /\ \A r \in Roles : eval_pc'[r] = eval_pc[r] => eval_out'[r] = eval_out[r]
    /\ \A r \in Roles :
           eval_out'[r].state = "returned" => eval_out'[r] = AssessmentOf(r, eval_in')

\* C30: the three evaluators do not write to what they share: under every
\* interleaving of their steps the offers store, the knowledge store, the
\* project context and the line items are unchanged, each evaluator writes
\* only its own result, and that result is the same whatever the interleaving.
C30_EvaluatorsOnlyRead == [][EvalFrameStep]_vars

\* sourcing has returned a result with a concern while engineering is at its
\* await and finance has not started
C30_Witness ==
    /\ eval_out["sourcing"].state = "returned"
    /\ eval_out["sourcing"].key_concerns # <<>>
    /\ eval_pc["engineering"].at = "awaiting"
    /\ eval_pc["finance"].at = "start"


\* the result of engineering holds a concern that references the MPN as banned
BannedEntries(mpn) ==
    {k \in 1..Len(eval_out["engineering"].key_concerns) :
        /\ eval_out["engineering"].key_concerns[k].mpn = mpn
        /\ eval_out["engineering"].key_concerns[k].text = "BANNED"}

\* the line item is reported as banned, with the reason the store gives
ReportedBanned(item) ==
    \E k \in BannedEntries(item.mpn) :
        eval_out["engineering"].key_concerns[k].detail = eval_in.banned[item.mpn]

\* C31: for every evaluated line item whose MPN is banned in the knowledge
\* store, the concerns of the engineering result hold an entry that references
\* the MPN and its ban reason; a line item that is not banned gets no such entry.
C31_BannedPartsReported ==
    eval_out["engineering"].state = "returned" =>
        \A i \in 1..Len(eval_in.line_items) :
            LET item == eval_in.line_items[i]
            IN IF is_part_banned(eval_in, item.mpn)
               THEN ReportedBanned(item)
               ELSE BannedEntries(item.mpn) = {}

\* engineering has returned for a batch that holds the banned P1 and P2, which
\* is not banned
C31_Witness ==
    /\ eval_out["engineering"].state = "returned"
    /\ eval_in.banned["P1"] # ""
    /\ \E i, j \in 1..Len(eval_in.line_items) :
           /\ eval_in.line_items[i].mpn = "P1"
           /\ eval_in.line_items[j].mpn = "P2"


\* the result of finance holds a budget-exceeded warning
BudgetExceededWarning ==
    \E k \in 1..Len(eval_out["finance"].key_concerns) :
        eval_out["finance"].key_concerns[k].text = "exceeds budget"

\* the total estimated cost of the evaluated line items
TotalEstimatedCost == running_total(eval_in, Len(eval_in.line_items))

\* C33: the concerns of the finance result hold a budget-exceeded warning when
\* the total estimated cost of the evaluated line items exceeds the budget of
\* the context (a budget of 0 with a positive estimate included), and none
\* when the estimate does not exceed the budget.
C33_BudgetExceededWarned ==
    eval_out["finance"].state = "returned" =>
        (BudgetExceededWarning <=> TotalEstimatedCost > eval_in.budget_total)

\* finance has returned a warning for an estimate above a budget that is not 0
C33_Witness ==
    /\ eval_out["finance"].state = "returned"
    /\ eval_in.budget_total > 0
    /\ TotalEstimatedCost > eval_in.budget_total
    /\ BudgetExceededWarning


\* the text repeats the ban reason
Cites(text, reason) == reason = "EOL" /\ text = "P1: BANNED - EOL"

\* the texts a run persists for an item: the reasoning of its trace steps and
\* the texts of its decision record
AuditTexts ==
    {synth_out.trace_reasoning[k] : k \in 1..Len(synth_out.trace_reasoning)}
        \cup {synth_out.decision_reasoning, synth_out.decision_findings}

\* the batch holds P1 and the knowledge store bans it
BannedInBatch ==
    /\ is_part_banned(eval_in, "P1")
    /\ \E i \in 1..Len(eval_in.line_items) : eval_in.line_items[i].mpn = "P1"

\* C32: for an item whose MPN is banned in the knowledge store, after a run
\* that completes, the ban reason is in what the run persisted for the item
\* (its trace steps or its decision record), whatever the verdict.
C32_BanReasonPersisted ==
    (synth_out.persisted /\ BannedInBatch) =>
        \E text \in AuditTexts : Cites(text, eval_in.banned["P1"])

-----------------------------------------------------------------------------
(* Frames of the project record *)

\* one step of a run whose project exists: the context of the stored record
\* and of the working copy stay the context intake created
ContextKeptStep ==
    store # NoProject =>
        /\ store'.context = store.context
        /\ project' # NoProject => project'.context = store.context

\* C36: the context is immutable after intake: no later stage (enrich, market
\* intel, parallel review, final decision, complete) and no evaluator or
\* synthesizer call changes a field of the project's context, so the context
\* persisted at complete is the one created at intake.
C36_ContextImmutable == [][ContextKeptStep]_vars

\* a run with an approved part is complete and its context is the one of intake
C36_Witness ==
    /\ store.status = "complete"
    /\ store.context = create_project(bom).context
    /\ \E i \in 1..Len(store.line_items) : store.line_items[i].status = PENDING_PURCHASE

\* the MPNs of the line items of a project, in order
ItemMPNs(p) == [i \in 1..Len(p.line_items) |-> p.line_items[i].mpn]

TerminalStatuses == {PENDING_PURCHASE, FAILED}

\* C38: whenever the persisted status of a project is complete, every one of
\* its line items is PENDING_PURCHASE or FAILED.
C38_CompleteMeansDecided ==
    store.status = "complete" =>
        \A i \in 1..Len(store.line_items) : store.line_items[i].status \in TerminalStatuses

\* the decision record, status and selection of one persisted item agree
DecisionAgrees(item) ==
    /\ item.final_decision # None <=> item.status \in TerminalStatuses
    /\ item.final_decision = APPROVED <=> item.status = PENDING_PURCHASE
    /\ item.selected_supplier # None => item.status = PENDING_PURCHASE
    /\ item.selected_mpn # None => item.status = PENDING_PURCHASE /\ item.selected_mpn = item.mpn

\* C39: in every persisted state of a project, a line item has a final
\* decision record exactly when its status is PENDING_PURCHASE or FAILED, the
\* record is APPROVED exactly when the item is PENDING_PURCHASE, and the
\* selected supplier and MPN are set only for a PENDING_PURCHASE item, the
\* selected MPN being the item's own.
C39_DecisionRecordMatchesStatus ==
    \A i \in 1..Len(store.line_items) : DecisionAgrees(store.line_items[i])

\* a persisted project with one item approved and selected, one rejected, and
\* one not decided yet
C39_Witness ==
    \E i, j \in 1..Len(store.line_items) :
        /\ store.line_items[i].status = PENDING_PURCHASE
        /\ store.line_items[i].selected_mpn = store.line_items[i].mpn
        /\ store.line_items[j].final_decision = None

-----------------------------------------------------------------------------
(* Reads of the knowledge store *)

\* role r reads the stores in this step
ReadsNow(r) == eval_pc[r].at = "start" /\ eval_pc'[r].at = "awaiting"

\* an evaluator that reads in this step uses what the stores hold now
LatestReadStep ==
    \A r \in Roles : ReadsNow(r) => eval_pc'[r].key_concerns = key_concerns(r, eval_in)

-----------------------------------------------------------------------------
(* Concurrent runs *)

\* the record a run over the rows reaches when it runs alone as project id
AloneProject(rows, id) ==
    StageResult("complete",
        StageResult("decide",
            StageResult("review",
                StageResult("enrich", [create_project(rows) EXCEPT !.project_id = id]))))

\* the Offers Store a run over the rows fills when it runs alone
AloneOffers(rows) ==
    [m \in MPNs |-> IF \E i \in 1..Len(rows) : rows[i] = m
                    THEN create_mock_offers(m) ELSE <<>>]

\* the run has created its project
Started(r) == runs[r].project_id # ""

\* C34: the Project Store is single-writer per project: under every
\* interleaving of two concurrent runs no project id is used by both, each run
\* holds and writes only its own record and its own Offers Store, and the
\* final state of each project is the one it reaches when its run runs alone.
C34_RunsIndependent ==
    /\ (Started("A") /\ Started("B")) => runs["A"].project_id # runs["B"].project_id
    /\ \A r \in RunIds :
           Started(r) => runs[r].project.project_id = runs[r].project_id
    /\ \A r \in RunIds :
           runs[r].pc = "done" =>
               /\ projects_db[runs[r].project_id] =
                      AloneProject(runs[r].bom, runs[r].project_id)
               /\ offers_dbs[runs[r].project_id] = AloneOffers(runs[r].bom)

\* both runs are done, over different BOMs, run A having created its project
\* after run B
C34_Witness ==
    /\ runs["A"].pc = "done"
    /\ runs["B"].pc = "done"
    /\ runs["A"].bom # runs["B"].bom
    /\ runs["A"].bom # <<>>
    /\ runs["B"].bom # <<>>
    /\ runs["A"].project_id = "PRJ-2"

-----------------------------------------------------------------------------
(* The API key store *)

\* this step is a validate_key call / a revoke_key call
ValidateStep == key_call'.op = "validate_key"
RevokeStep == key_call'.op = "revoke_key"

\* the rows whose hash is the hash of the raw key
RowsOfRaw(raw_key) == {k \in 1..Len(key_rows) : key_rows[k].hashed_key = hash_key(raw_key)}

\* one step of the key store: a key is returned only for a raw key with an
\* active row; a revocation that succeeds leaves the key inactive; an inactive
\* key stays inactive; and the validation of the raw key of an inactive key
\* returns nothing and writes nothing
KeyStoreStep ==
    /\ (ValidateStep /\ key_call'.found) =>
           \E k \in RowsOfRaw(key_call'.arg) :
               key_rows[k].is_active /\ key_rows[k].key_id = key_call'.key_id
    /\ (RevokeStep /\ key_call'.found) =>
           \E k \in 1..Len(key_rows') :
               key_rows'[k].key_id = key_call'.arg /\ ~key_rows'[k].is_active
    /\ \A k \in 1..Len(key_rows) : ~key_rows[k].is_active => ~key_rows'[k].is_active
    /\ (ValidateStep /\ \E k \in RowsOfRaw(key_call'.arg) : ~key_rows[k].is_active) =>
           ~key_call'.found /\ key_rows' = key_rows

\* C40: over any sequence of create_key, validate_key and revoke_key,
\* validate_key returns a key only for a raw key whose hash is the one of a
\* stored key that is active; once revoke_key(key_id) has returned True,
\* validate_key of that key's raw key returns None in every later state (no
\* operation makes a key active again) and changes no stored key.
C40_RevokedKeysStayInvalid == [][KeyStoreStep]_vars

\* the raw key of a key that was validated once and then revoked has been
\* presented again and refused, while another key is active
C40_Witness ==
    /\ key_call.op = "validate_key"
    /\ ~key_call.found
    /\ \E k, j \in 1..Len(key_rows) :
           /\ key_rows[k].hashed_key = hash_key(key_call.arg)
           /\ ~key_rows[k].is_active
           /\ key_rows[k].last_used # 0
           /\ key_rows[j].is_active

====
